---- MODULE Spec2Model ----
(***************************************************************************)
(* A model of the waveform / sequence container builder of the Tektronix   *)
(* AWG70000 driver (src/src/instruments/tectronix/AWG70000.py): the XML    *)
(* header builders with their offset back-patching, the binary sample      *)
(* packer, the container builder, the archive assembler and the two        *)
(* importers.                                                              *)
(*                                                                         *)
(* Python str values are TLA+ strings (a str is a sequence of characters:  *)
(* Len, \o and SubSeq act on it as on the str); bytes values are sequences *)
(* of integers 0..255; Python lists are sequences; a raised exception is   *)
(* a record [err |-> <exception type>, msg |-> <message>].                 *)
(***************************************************************************)
EXTENDS Integers, Sequences, FiniteSets, TLC

VARIABLES
    op,         \* the operation the caller invokes
    args,       \* the arguments of the call
    data,       \* the caller's numpy array (rows of samples); views alias it
    ret,        \* what the calls made so far returned or raised
    writes,     \* the transport's log of write / write_raw calls
    nb_marker,  \* self._nb_marker
    pc,         \* the position of the running call
    frame       \* the local variables of the running call

vars == <<op, args, data, ret, writes, nb_marker, pc, frame>>

----------------------------------------------------------------------------
(* Python built-ins *)

NoneVal == [none |-> TRUE]

Raise(type, msg) == [err |-> type, msg |-> msg]

\* a call that returns v (a raised exception is Raise(type, msg))
Return(v) == [val |-> v]

IsError(r) == "err" \in DOMAIN r

Indices(n) == [i \in 1..n |-> i]

\* the start positions of every occurrence of old in s, ascending
Occurrences(s, old) ==
    IF Len(s) < Len(old) THEN <<>>
    ELSE SelectSeq(Indices(Len(s) - Len(old) + 1),
                   LAMBDA i : SubSeq(s, i, i + Len(old) - 1) = old)

Slice(s, from, to) == IF from > to THEN "" ELSE SubSeq(s, from, to)

\* ''.join(strs[lo-1:hi])
RECURSIVE JoinRange(_, _, _)
JoinRange(strs, lo, hi) ==
    IF lo > hi THEN ""
    ELSE IF lo = hi THEN strs[lo]
    ELSE LET mid == (lo + hi) \div 2
         IN JoinRange(strs, lo, mid) \o JoinRange(strs, mid + 1, hi)

\* ''.join(strs)
JoinStr(strs) == JoinRange(strs, 1, Len(strs))

\* the k-th occurrence is one that replace takes: it starts at or after the
\* end of every occurrence taken before it
RECURSIVE Taken(_, _, _)
Taken(occ, width, k) ==
    \A j \in 1..(k - 1) : occ[k] - occ[j] < width => ~Taken(occ, width, j)

\* the occurrences of occ that replace takes
TakenOf(occ, width) ==
    LET ks == SelectSeq(Indices(Len(occ)), LAMBDA k : Taken(occ, width, k))
    IN [n \in DOMAIN ks |-> occ[ks[n]]]

\* s with the occurrences of old that start at the positions 'at' replaced
ReplaceAt(s, old, new, at) ==
    JoinStr([k \in 1..(Len(at) + 1) |->
                IF k > Len(at)
                THEN Slice(s, IF k = 1 THEN 1 ELSE at[k - 1] + Len(old), Len(s))
                ELSE Slice(s, IF k = 1 THEN 1 ELSE at[k - 1] + Len(old), at[k] - 1)
                     \o new])

\* str.replace(old, new), old not empty: every non-overlapping occurrence,
\* leftmost first
StrReplace(s, old, new) ==
    CHOOSE r \in { ReplaceAt(s, old, new, at) :
                      at \in { TakenOf(occ, Len(old)) : occ \in {Occurrences(s, old)} } } : TRUE

DigitChar(d) == SubSeq("0123456789", d + 1, d + 1)

RECURSIVE NatToStr(_)
NatToStr(n) == IF n < 10 THEN DigitChar(n)
               ELSE NatToStr(n \div 10) \o DigitChar(n % 10)

\* f'{n:d}'
FormatD(n) == IF n < 0 THEN "-" \o NatToStr(-n) ELSE NatToStr(n)

RECURSIVE Repeat(_, _)
Repeat(s, n) == IF n <= 0 THEN "" ELSE s \o Repeat(s, n - 1)

\* '{num:0{pad}d}'.format(num=n, pad=pad), n >= 0
FormatZeroPad(n, pad) == Repeat("0", pad - Len(NatToStr(n))) \o NatToStr(n)

\* str(b).lower() of a bool
BoolLower(b) == IF b THEN "true" ELSE "false"

\* lst.count(x)
Count(lst, x) == Cardinality({i \in DOMAIN lst : lst[i] = x})

----------------------------------------------------------------------------
(* xml.etree.ElementTree: an element is a record of its tag, its attributes *)
(* in insertion order, its text ("" for None) and its children.             *)

Element(tag, attrib, text, children) ==
    [tag |-> tag, attrib |-> attrib, text |-> text, children |-> children]

\* ElementTree._escape_cdata
EscapeCdata(text) ==
    StrReplace(StrReplace(StrReplace(text, "&", "&amp;"), "<", "&lt;"),
               ">", "&gt;")

\* ElementTree._escape_attrib
EscapeAttrib(text) ==
    StrReplace(StrReplace(StrReplace(StrReplace(StrReplace(StrReplace(
        text, "&", "&amp;"), "<", "&lt;"), ">", "&gt;"), "\"", "&quot;"),
        "\r", "&#13;"), "\n", "&#10;")

RECURSIVE AttribString(_, _)
AttribString(attrib, k) ==
    IF k > Len(attrib) THEN ""
    ELSE " " \o attrib[k][1] \o "=\"" \o EscapeAttrib(attrib[k][2]) \o "\""
         \o AttribString(attrib, k + 1)

RECURSIVE tostring(_)
RECURSIVE ChildrenString(_, _)
ChildrenString(children, k) ==
    IF k > Len(children) THEN ""
    ELSE tostring(children[k]) \o ChildrenString(children, k + 1)

\* ET.tostring(elem, encoding='unicode'), short_empty_elements=True
tostring(elem) ==
    "<" \o elem.tag \o AttribString(elem.attrib, 1) \o
    (IF elem.text # "" \/ Len(elem.children) > 0
     THEN ">" \o EscapeCdata(elem.text) \o ChildrenString(elem.children, 1)
          \o "</" \o elem.tag \o ">"
     ELSE " />")

----------------------------------------------------------------------------
(* The timestamp both header builders embed.  now is                        *)
(* dt.datetime.now().strftime('%Y-%m-%dT%H:%M:%S.%f')[:-3] and timezone is  *)
(* time.timezone, both read from the host.                                  *)

Timestamp(now, timezone) ==
    LET tz_m0 == timezone \div 60
        tz_h0 == tz_m0 \div 60
        tz_m  == tz_m0 % 60
        signstr == IF tz_h0 < 0 THEN "-" ELSE "+"
        tz_h  == IF tz_h0 < 0 THEN -tz_h0 ELSE tz_h0
    IN now \o signstr \o FormatZeroPad(tz_h, 2) \o ":" \o FormatZeroPad(tz_m, 2)

offsetdigits == 9

MinSamples == 2400

\* lines 354-364: serialise, break the lines, write the header's length
\* over the offset placeholder
WFMX_BackPatch(hdr) ==
    LET xmlstr == StrReplace(tostring(hdr), "><", ">\r\n<")
    IN StrReplace(xmlstr, Repeat("0", offsetdigits),
                  FormatZeroPad(Len(xmlstr), offsetdigits))

Leaf(tag, text) == Element(tag, <<>>, text, <<>>)

\* lines 298-352: the element tree of a .wfmx header
WFMX_HeaderTree(num_samples, markers_included, timestr) ==
    LET datadesc == Element("DataDescription", <<>>, "", <<
            Leaf("NumberSamples", FormatD(num_samples)),
            Leaf("SamplesType", "AWGWaveformSample"),
            Leaf("MarkersIncluded", BoolLower(markers_included)),
            Leaf("NumberFormat", "Single"),
            Leaf("Endian", "Little"),
            Leaf("Timestamp", timestr) >>)
        prodspec == Element("ProductSpecific", << <<"name", "AWG70002B">> >>, "", <<
            Element("RecSamplingRate", << <<"units", "Hz">> >>, "NaN", <<>>),
            Element("RecAmplitude", << <<"units", "Volts">> >>, "NaN", <<>>),
            Element("RecOffset", << <<"units", "Volts">> >>, "NaN", <<>>),
            Element("RecFrequency", << <<"units", "Hz">> >>, "NaN", <<>>),
            Leaf("SerialNumber", "B010294"),
            Leaf("SoftwareVersion", "7.1.0170.0"),
            Leaf("UserNotes", ""),
            Leaf("Thumbnail", ""),
            Leaf("SignalFormat", "Real"),
            Element("CreatorProperties", << <<"name", "">> >>, "", <<>>) >>)
        datasets == Element("DataSets",
            << <<"version", "1">>, <<"xmlns", "http://www.tektronix.com">> >>, "",
            << datadesc, prodspec >>)
        dsc == Element("DataSetsCollection",
            << <<"xmlns", "http://www.tektronix.com">>,
               <<"xmlns:xsi", "http://www.w3.org/2001/XMLSchema-instance">>,
               <<"xsi:schemaLocation",
                 "http://www.tektronix.com file:///"
                 \o "C:\\Program%20Files\\Tektronix\\AWG70000"
                 \o "\\AWG\\Schemas\\awgDataSets.xsd">> >>, "",
            << datasets >>)
    IN Element("DataFile",
               << <<"offset", Repeat("0", offsetdigits)>>, <<"version", "0.2">> >>,
               "", << dsc, Leaf("Setup", "") >>)

\* _make_WFMX_file_header; num_samples is an int
make_WFMX_file_header(num_samples, markers_included, now, timezone) ==
    IF num_samples < MinSamples
    THEN Raise("ValueError", "num_samples must be at least 2400.")
    ELSE Return(WFMX_BackPatch(WFMX_HeaderTree(num_samples, markers_included,
                                               Timestamp(now, timezone))))

----------------------------------------------------------------------------
(* _make_SML_file *)

\* lines 1194-1195: waitinputs and eventinputs, the same table
\* the table with input 3 named as input 1
waitinputs_InternalAsTrigA == [k \in 0..3 |->
    CASE k = 0 -> "None" [] k = 1 -> "TrigA" [] k = 2 -> "TrigB" [] k = 3 -> "TrigA"]

\* lines 1193-1194
waitinputs == [k \in 0..3 |->
    CASE k = 0 -> "None" [] k = 1 -> "TrigA" [] k = 2 -> "TrigB" [] k = 3 -> "Internal"]

eventinputs == waitinputs

\* lines 1197-1207: the validation that precedes the XML construction
SML_CheckLengths(trig_waits, nreps, event_jumps, event_jump_to, go_to, elem_names) ==
    LET inputlsts == <<trig_waits, nreps, event_jump_to, go_to>>
        lstlens == [i \in DOMAIN inputlsts |-> Len(inputlsts[i])]
    IN IF Count(lstlens, lstlens[1]) # Len(lstlens)
       THEN Raise("ValueError", "All input lists must have the same length!")
       ELSE IF lstlens[1] = 0
       THEN Raise("ValueError", "Received empty sequence option lengths!")
       ELSE IF lstlens[1] # Len(elem_names)
       THEN Raise("ValueError", "Mismatch between number of waveforms and number of sequencing steps.")
       ELSE NoneVal

\* what iteration n of the loop at lines 1255-1312 raises, if anything
SML_StepError(n, trig_waits, event_jumps) ==
    IF trig_waits[n] \notin DOMAIN waitinputs
    THEN Raise("KeyError", FormatD(trig_waits[n]))
    ELSE IF n > Len(event_jumps)
    THEN Raise("IndexError", "list index out of range")
    ELSE IF event_jumps[n] \notin DOMAIN eventinputs
    THEN Raise("KeyError", FormatD(event_jumps[n]))
    ELSE NoneVal

\* lines 1295-1304
SML_Assets(n, names, subseq_positions) ==
    Element("Assets", <<>>, "",
        [k \in DOMAIN names |->
            Element("Asset", <<>>, "", <<
                Leaf("AssetName", names[k]),
                Leaf("AssetType",
                     IF \E j \in DOMAIN subseq_positions : subseq_positions[j] = n
                     THEN "Sequence" ELSE "Waveform") >>)])

\* the Flags element with a single FlagSet whatever the channel count
SML_Flags_SingleFlagSet(chans) ==
    Element("Flags", <<>>, "",
        << Element("FlagSet", <<>>, "", <<
                Element("Flag", << <<"name", "A">> >>, "NoChange", <<>>),
                Element("Flag", << <<"name", "B">> >>, "NoChange", <<>>),
                Element("Flag", << <<"name", "C">> >>, "NoChange", <<>>),
                Element("Flag", << <<"name", "D">> >>, "NoChange", <<>>) >>) >>)

\* lines 1306-1312
SML_Flags(chans) ==
    Element("Flags", <<>>, "",
        [c \in 1..chans |->
            Element("FlagSet", <<>>, "", <<
                Element("Flag", << <<"name", "A">> >>, "NoChange", <<>>),
                Element("Flag", << <<"name", "B">> >>, "NoChange", <<>>),
                Element("Flag", << <<"name", "C">> >>, "NoChange", <<>>),
                Element("Flag", << <<"name", "D">> >>, "NoChange", <<>>) >>)])

\* lines 1256-1312: the Step element of step n (1-indexed)
SML_Step(n, trig_waits, nreps, event_jumps, event_jump_to, go_to, elem_names, chans, subseq_positions) ==
    Element("Step", <<>>, "", <<
        Leaf("StepNumber", FormatD(n)),
        Leaf("Repeat", IF nreps[n] = 0 THEN "Infinite"
                       ELSE IF nreps[n] = 1 THEN "Once" ELSE "RepeatCount"),
        Leaf("RepeatCount", IF nreps[n] = 0 \/ nreps[n] = 1 THEN "1"
                            ELSE FormatD(nreps[n])),
        Leaf("WaitInput", waitinputs[trig_waits[n]]),
        Leaf("EventJumpInput", eventinputs[event_jumps[n]]),
        Leaf("EventJumpTo", IF event_jump_to[n] = 0 THEN "Next" ELSE "StepIndex"),
        Leaf("EventJumpToStep", IF event_jump_to[n] = 0 THEN "1"
                                ELSE FormatD(event_jump_to[n])),
        Leaf("GoTo", IF go_to[n] = 0 THEN "Next" ELSE "StepIndex"),
        Leaf("GoToStep", IF go_to[n] = 0 THEN "1" ELSE FormatD(go_to[n])),
        SML_Assets(n, elem_names[n], subseq_positions),
        SML_Flags(chans) >>)

\* lines 1224-1316: the element tree of a sequence descriptor of N steps
SML_Tree(N, trig_waits, nreps, event_jumps, event_jump_to, go_to, elem_names, seqname, chans, subseq_positions, timestr) ==
    LET steps == Element("Steps",
            << <<"StepCount", FormatD(N)>>, <<"TrackCount", FormatD(chans)>> >>, "",
            [n \in 1..N |-> SML_Step(n, trig_waits, nreps, event_jumps,
                                     event_jump_to, go_to, elem_names, chans,
                                     subseq_positions)])
        datadesc == Element("DataDescription", <<>>, "", <<
            Leaf("SequenceName", seqname),
            Leaf("Timestamp", timestr),
            Leaf("JumpTiming", "JumpImmed"),
            Leaf("RecSampleRate", "NaN"),
            Leaf("RepeatFlag", "false"),
            Element("PatternJumpTable",
                    << <<"Enabled", "false">>, <<"Count", "256">> >>, "", <<>>),
            steps >>)
        datasets == Element("DataSets",
            << <<"version", "1">>, <<"xmlns", "http://www.tektronix.com">> >>, "",
            << datadesc, Element("ProductSpecific", << <<"name", "">> >>, "", <<>>) >>)
        dsc == Element("DataSetsCollection",
            << <<"xmlns", "http://www.tektronix.com">>,
               <<"xmlns:xsi", "http://www.w3.org/2001/XMLSchema-instance">>,
               <<"xsi:schemaLocation",
                 "http://www.tektronix.com file:///"
                 \o "C:\\Program%20Files\\Tektronix\\AWG70000"
                 \o "\\AWG\\Schemas\\awgSeqDataSets.xsd">> >>, "",
            << datasets >>)
    IN Element("DataFile",
               << <<"offset", Repeat("0", offsetdigits)>>, <<"version", "0.1">> >>,
               "", << dsc, Leaf("Setup", "") >>)

\* lines 1321-1331 with the length taken before the line breaks are inserted
SML_BackPatch_LenBeforeCRLF(datafile) ==
    LET raw == tostring(datafile)
        xmlstr == StrReplace(raw, "><", ">\r\n<")
    IN StrReplace(xmlstr, Repeat("0", offsetdigits),
                  FormatZeroPad(Len(raw), offsetdigits))

\* lines 1321-1331
SML_BackPatch(datafile) ==
    LET xmlstr == StrReplace(tostring(datafile), "><", ">\r\n<")
    IN StrReplace(xmlstr, Repeat("0", offsetdigits),
                  FormatZeroPad(Len(xmlstr), offsetdigits))

\* _make_SML_file: the descriptor text, or the exception raised
make_SML_file(trig_waits, nreps, event_jumps, event_jump_to, go_to, elem_names, seqname, chans, subseq_positions, now, timezone) ==
    LET chk == SML_CheckLengths(trig_waits, nreps, event_jumps, event_jump_to,
                                go_to, elem_names)
        N == Len(trig_waits)
        bad == {n \in 1..N : IsError(SML_StepError(n, trig_waits, event_jumps))}
    IN IF IsError(chk) THEN chk
       ELSE IF bad # {}
       THEN SML_StepError(CHOOSE n \in bad : \A m \in bad : n <= m,
                          trig_waits, event_jumps)
       ELSE Return(SML_BackPatch(SML_Tree(N, trig_waits, nreps, event_jumps,
                                          event_jump_to, go_to, elem_names,
                                          seqname, chans, subseq_positions,
                                          Timestamp(now, timezone))))

----------------------------------------------------------------------------
(* numpy arrays and struct.pack.  An array is [ndim, rows]: ndim = 1 has    *)
(* the one row rows[1] (shape (N,)), ndim = 2 has shape (Len(rows), N).     *)
(* Voltages (samples of a waveform row, amplitudes) are whole numbers of    *)
(* 1/UnitsPerVolt V; marker rows hold 0/1.  Amplitudes are powers of two,   *)
(* so that a rescaled sample 2*s/amplitude is a dyadic rational <<num, den>>*)
(* that a float holds exactly.                                              *)

UnitsPerVolt == 8

Abs(x) == IF x < 0 THEN -x ELSE x

RECURSIVE Pow2(_)
Pow2(n) == IF n <= 0 THEN 1 ELSE 2 * Pow2(n - 1)

RECURSIVE MaxIn(_, _, _)
MaxIn(row, lo, hi) ==
    IF lo = hi THEN row[lo]
    ELSE LET mid == (lo + hi) \div 2
             a == MaxIn(row, lo, mid)
             b == MaxIn(row, mid + 1, hi)
         IN IF a >= b THEN a ELSE b

\* max(row), min(row) of a non-empty row
MaxOf(row) == MaxIn(row, 1, Len(row))
MinOf(row) == -MaxIn([i \in DOMAIN row |-> -row[i]], 1, Len(row))

\* wfm * scale with scale = 2 / amplitude: the exact quotient 2*s/amplitude
Rescale(s, amplitude) ==
    LET num == IF amplitude < 0 THEN -2 * s ELSE 2 * s
        den == Abs(amplitude)
    IN <<num, den>>

\* struct.pack('<f', num/den): the four bytes, least significant first, of
\* the IEEE-754 single that equals the dyadic rational num/den
PackFloat(v) ==
    LET num == v[1]
        den == v[2]
        a == Abs(num)
        sgn == IF num < 0 THEN 1 ELSE 0
        \* the exponent e with 2^e <= a/den < 2^(e+1)
        up == CHOOSE k \in 0..30 : a < den * Pow2(k + 1) /\ (k = 0 \/ a >= den * Pow2(k))
        down == CHOOSE k \in 0..30 : a * Pow2(k) >= den /\ (k = 0 \/ a * Pow2(k - 1) < den)
        e == IF a >= den THEN up ELSE -down
        \* a/den = (1 + m / 2^23) * 2^e
        m == IF e >= 0 THEN (a * Pow2(23 - e)) \div den - Pow2(23)
             ELSE (a * Pow2(down) * Pow2(23)) \div den - Pow2(23)
        E == e + 127
    IN IF num = 0 THEN <<0, 0, 0, 0>>
       ELSE << m % 256, (m \div 256) % 256,
               (E % 2) * 128 + (m \div 65536), sgn * 128 + (E \div 2) >>

\* struct.unpack('<f', b): the value as <<num, den>>
UnpackFloat(b) ==
    LET sgn == b[4] \div 128
        E == (b[4] % 128) * 2 + (b[3] \div 128)
        m == (b[3] % 128) * 65536 + b[2] * 256 + b[1]
        e == E - 127
        mag == IF e >= 0 THEN <<(Pow2(23) + m) * Pow2(e), Pow2(23)>>
               ELSE <<Pow2(23) + m, Pow2(23) * Pow2(-e)>>
    IN IF E = 0 /\ m = 0 THEN <<0, 1>>
       ELSE <<(IF sgn = 1 THEN -1 ELSE 1) * mag[1], mag[2]>>

\* the waveform rows of the inputs are periodic with one of these periods
WfmPatterns == { <<0>>, <<1, -1>>, <<2, -1>>, <<1, -2>> }

\* the peak-to-peak amplitudes of the inputs of the container builder
Amplitudes == {-2, 2, 4}

\* the periods of the waveform rows in the importers' inputs: within the
\* range of every channel amplitude, and beyond the range of every one
InRangePattern == <<1, -1>>
OutOfRangePattern == <<1, -6>>

\* set_amplitude, line 1529: 0.5 V
MaxAmplitude == UnitsPerVolt \div 2

\* load_broadbean_sequence, line 945: 0.5 V
DefaultAmplitude == UnitsPerVolt \div 2

\* the amplitudes lists given to the archive builders
AmplitudeLists ==
    { <<MaxAmplitude>>, <<MaxAmplitude, MaxAmplitude \div 2>>,
      <<MaxAmplitude \div 2, MaxAmplitude>> }

\* the amplitudes lists given to load_broadbean_sequence
LoadAmplitudeLists == AmplitudeLists \cup { <<2 * MaxAmplitude, MaxAmplitude>> }

SampleValues ==
    UNION { {p[i] : i \in DOMAIN p} : p \in WfmPatterns \cup {InRangePattern, OutOfRangePattern} }

ListAmplitudes == UNION { {l[i] : i \in DOMAIN l} : l \in AmplitudeLists }

PackAmplitudes ==
    Amplitudes \cup UNION { {l[i] : i \in DOMAIN l} : l \in LoadAmplitudeLists }

\* struct.pack('<f', s * (2 / amplitude)), tabulated over the inputs' values
PackedSample ==
    [s \in SampleValues, a \in PackAmplitudes |-> PackFloat(Rescale(s, a))]

\* struct.pack('<' + N * 'f', *wfm) of the rescaled row
PackFloats(wfm, amplitude) ==
    [j \in 1..(4 * Len(wfm)) |->
        PackedSample[wfm[(j + 3) \div 4], amplitude][((j - 1) % 4) + 1]]

\* the characters of codes 32..95 and 97..126, in code order (a TLA+
\* string cannot hold the character of code 96)
AsciiLow ==
    " !\"#$%&'()*+,-./0123456789:;<=>?@ABCDEFGHIJKLMNOPQRSTUVWXYZ[\\]^_"
AsciiHigh == "abcdefghijklmnopqrstuvwxyz{|}~"

OrdTable ==
    [c \in {SubSeq(AsciiLow, i, i) : i \in 1..Len(AsciiLow)}
           \cup {SubSeq(AsciiHigh, i, i) : i \in 1..Len(AsciiHigh)}
           \cup {"\r", "\n"} |->
        IF c = "\r" THEN 13 ELSE IF c = "\n" THEN 10
        ELSE IF \E i \in 1..Len(AsciiLow) : SubSeq(AsciiLow, i, i) = c
        THEN 31 + (CHOOSE i \in 1..Len(AsciiLow) : SubSeq(AsciiLow, i, i) = c)
        ELSE 96 + (CHOOSE i \in 1..Len(AsciiHigh) : SubSeq(AsciiHigh, i, i) = c)]

Chr(code) == IF code = 13 THEN "\r" ELSE IF code = 10 THEN "\n"
             ELSE IF code < 96 THEN SubSeq(AsciiLow, code - 31, code - 31)
             ELSE SubSeq(AsciiHigh, code - 96, code - 96)

\* bytes(s, 'ascii')
EncodeAscii(s) == [i \in 1..Len(s) |-> OrdTable[SubSeq(s, i, i)]]

\* b[lo-1:hi].decode('ascii')
RECURSIVE DecodeAscii(_, _, _)
DecodeAscii(b, lo, hi) ==
    IF lo > hi THEN ""
    ELSE IF lo = hi THEN Chr(b[lo])
    ELSE LET mid == (lo + hi) \div 2
         IN DecodeAscii(b, lo, mid) \o DecodeAscii(b, mid + 1, hi)

----------------------------------------------------------------------------
(* _make_WFMX_file_binary_data.  markers = data[1, :] is a view of the      *)
(* caller's array, so markers += ... writes into the caller's row; the      *)
(* operator returns the bytes (or the exception), the caller's array as the *)
(* call leaves it, and whether the out-of-range warning was logged.         *)

\* lines 401-408: what the loop adds to markers[j], from iteration i on
RECURSIVE WFMX_MarkerSum(_, _, _)
WFMX_MarkerSum(rows, j, i) ==
    IF i > Len(rows) - 2 THEN 0
    ELSE rows[i + 2][j] * (Pow2(i) + Pow2(i + 2)) + WFMX_MarkerSum(rows, j, i + 1)

\* lines 400-408: the marker row after the accumulation loop
WFMX_MarkerRow(rows) ==
    [j \in DOMAIN rows[2] |-> rows[2][j] + WFMX_MarkerSum(rows, j, 1)]

\* lines 414-420: the condition of the warning
WFMX_ExceedsRange(wfm, amplitude) ==
    LET channel_max == IF amplitude < 0 THEN -amplitude ELSE amplitude
        \* wfm.max() > amplitude / 2 or wfm.min() < -amplitude / 2
    IN 2 * MaxOf(wfm) > channel_max \/ 2 * MinOf(wfm) < -channel_max

\* lines 422-429: wfm * scale, packed
WFMX_PackWaveform(wfm, amplitude) == PackFloats(wfm, amplitude)

\* the packer returning binary_wfm alone
make_WFMX_file_binary_data_NoMarkerBytes(d, amplitude) ==
    [res |-> Return(WFMX_PackWaveform(d.rows[1], amplitude)), data |-> d,
     warned |-> WFMX_ExceedsRange(d.rows[1], amplitude)]

make_WFMX_file_binary_data(d, amplitude) ==
    IF d.ndim = 1
    THEN [res |-> Return(WFMX_PackWaveform(d.rows[1], amplitude)), data |-> d,
          warned |-> WFMX_ExceedsRange(d.rows[1], amplitude)]
    ELSE IF Len(d.rows) < 2
    THEN [res |-> Raise("IndexError", "index 1 is out of bounds for axis 0 with size 1"),
          data |-> d, warned |-> FALSE]
    ELSE LET markers == WFMX_MarkerRow(d.rows)
             after == [d EXCEPT !.rows[2] = markers]
         IN IF \E j \in DOMAIN markers : markers[j] < 0 \/ markers[j] > 255
            THEN [res |-> Raise("struct.error", "ubyte format requires 0 <= number <= 255"),
                  data |-> after, warned |-> FALSE]
            ELSE [res |-> Return(WFMX_PackWaveform(d.rows[1], amplitude) \o markers),
                  data |-> after,
                  warned |-> WFMX_ExceedsRange(d.rows[1], amplitude)]

\* make_WFMX_file: ndim is 1 or 2 here, so 'too many dimensions' is not raised
make_WFMX_file(d, amplitude, now, timezone) ==
    LET N == Len(d.rows[1])
        markers_included == d.ndim # 1
        wfmx_hdr_str == make_WFMX_file_header(N, markers_included, now, timezone)
        bin == make_WFMX_file_binary_data(d, amplitude)
    IN IF IsError(wfmx_hdr_str)
       THEN [res |-> wfmx_hdr_str, data |-> d, warned |-> FALSE]
       ELSE IF IsError(bin.res) THEN bin
       ELSE [res |-> Return(EncodeAscii(wfmx_hdr_str.val) \o bin.res.val),
             data |-> bin.data, warned |-> bin.warned]

----------------------------------------------------------------------------
(* The host clock a call reads: <<now, timezone>> *)

Clocks == { <<"2026-11-05T02:37:55.997", 0>>, <<"2000-01-01T00:00:00.000", -19800>> }

----------------------------------------------------------------------------
(* SpecHdr: one call of a header builder on inputs drawn at Init *)

MaxSteps == 2

\* the sequencing options of one step: <<twait, nrep, jump_input, jump_target, goto>>
StepOptions == { <<0, 1, 0, 0, 0>>, <<1, 0, 0, 0, 0>>, <<2, 3, 1, 0, 2>>,
                 <<3, 1, 2, 2, 0>>, <<0, 1, 0, 2, 1>> }

SeqNames == {"seq", "s000000000"}

\* the asset names the importers give: wfm_<pos1>_<pos2>_<awgchan>
WfmName(pos1, pos2, awgchan) ==
    "wfm_" \o FormatD(pos1) \o "_" \o FormatD(pos2) \o "_" \o FormatD(awgchan)

SubseqName(pos1) == "subsequence_" \o FormatD(pos1)

StepAssets(n, chans, subseq_positions) ==
    IF \E j \in DOMAIN subseq_positions : subseq_positions[j] = n
    THEN <<SubseqName(n)>>
    ELSE [c \in 1..chans |-> WfmName(n, 1, c)]

\* step tables whose lists all have the same length N
SML_TableInputs ==
    UNION { { [trig_waits    |-> [n \in 1..N |-> steps[n][1]],
               nreps         |-> [n \in 1..N |-> steps[n][2]],
               event_jumps   |-> [n \in 1..N |-> steps[n][3]],
               event_jump_to |-> [n \in 1..N |-> steps[n][4]],
               go_to         |-> [n \in 1..N |-> steps[n][5]],
               elem_names    |-> [n \in 1..N |-> StepAssets(n, chans, subseq)],
               seqname |-> seqname, chans |-> chans,
               subseq_positions |-> subseq, clock |-> clock] :
              steps \in [1..N -> StepOptions], chans \in 1..2,
              subseq \in {<<>>, <<N>>}, seqname \in SeqNames, clock \in Clocks }
            : N \in 1..MaxSteps }

\* lists of every combination of lengths 0..MaxSteps, with the default options
SML_LengthInputs ==
    { [trig_waits    |-> [n \in 1..lens[1] |-> 0],
       nreps         |-> [n \in 1..lens[2] |-> 1],
       event_jumps   |-> [n \in 1..lens[3] |-> 0],
       event_jump_to |-> [n \in 1..lens[4] |-> 0],
       go_to         |-> [n \in 1..lens[5] |-> 0],
       elem_names    |-> [n \in 1..lens[6] |-> StepAssets(n, 1, <<>>)],
       seqname |-> "seq", chans |-> 1, subseq_positions |-> <<>>,
       clock |-> clock] :
      lens \in [1..6 -> 0..MaxSteps], clock \in Clocks }

WFMX_HeaderInputs ==
    { [num_samples |-> n, markers_included |-> m, clock |-> clock] :
      n \in {MinSamples - 1, MinSamples, 10 * MinSamples, 1000000000},
      m \in BOOLEAN, clock \in Clocks }

InitHdr ==
    /\ \/ op = "_make_SML_file" /\ args \in SML_TableInputs \cup SML_LengthInputs
       \/ op = "_make_WFMX_file_header" /\ args \in WFMX_HeaderInputs
    /\ ret = <<>>
    /\ pc = "call"
    /\ data = <<>> /\ writes = <<>> /\ nb_marker = <<>> /\ frame = <<>>

Call_make_SML_file ==
    /\ pc = "call" /\ op = "_make_SML_file"
    /\ ret' = Append(ret, make_SML_file(args.trig_waits, args.nreps, args.event_jumps,
                                        args.event_jump_to, args.go_to, args.elem_names,
                                        args.seqname, args.chans, args.subseq_positions,
                                        args.clock[1], args.clock[2]))
    /\ pc' = "done"
    /\ UNCHANGED <<op, args, data, writes, nb_marker, frame>>

Call_make_WFMX_file_header ==
    /\ pc = "call" /\ op = "_make_WFMX_file_header"
    /\ ret' = Append(ret, make_WFMX_file_header(args.num_samples, args.markers_included,
                                                args.clock[1], args.clock[2]))
    /\ pc' = "done"
    /\ UNCHANGED <<op, args, data, writes, nb_marker, frame>>

NextHdr == Call_make_SML_file \/ Call_make_WFMX_file_header

SpecHdr == InitHdr /\ [][NextHdr]_vars

----------------------------------------------------------------------------
(* SpecWfm: a caller holds one array and calls make_WFMX_file on it, up to  *)
(* MaxCalls times; 'data' is the caller's array, args.data0 what it held    *)
(* before the first call.                                                   *)

MaxCalls == 2

\* shape[-1] of the arrays: one below the minimum, and the minimum
WfmLengths == {MinSamples - 1, MinSamples}

\* the marker rows given with a waveform: none (a 1-D array) up to four
MarkerRowCounts == 0..4

Tile(p, N) == [j \in 1..N |-> p[((j - 1) % Len(p)) + 1]]

\* marker row i is bit i-1 of the sample index, so that the rows together
\* take every combination of values
MarkerBits(i, N) == [j \in 1..N |-> ((j - 1) \div Pow2(i - 1)) % 2]

\* np.array(wfm) or np.array([wfm, m1, ..., mk])
ArrayOf(p, k, N) ==
    IF k = 0 THEN [ndim |-> 1, rows |-> <<Tile(p, N)>>]
    ELSE [ndim |-> 2, rows |-> <<Tile(p, N)>> \o [i \in 1..k |-> MarkerBits(i, N)]]

WfmArrays ==
    { ArrayOf(p, k, N) : p \in WfmPatterns, k \in MarkerRowCounts, N \in WfmLengths }

\* the clock read by the c-th call
ClockSchedule ==
    << <<"2026-11-05T02:37:55.997", 0>>, <<"2000-01-01T00:00:00.000", -19800>> >>

ClockAt(c) == ClockSchedule[((c - 1) % Len(ClockSchedule)) + 1]

InitWfm ==
    /\ op = "make_WFMX_file"
    /\ data \in WfmArrays
    /\ \E a \in Amplitudes : args = [data0 |-> data, amplitude |-> a]
    /\ ret = <<>>
    /\ pc = "call"
    /\ writes = <<>> /\ nb_marker = <<>> /\ frame = <<>>

Call_make_WFMX_file ==
    /\ pc = "call" /\ op = "make_WFMX_file"
    /\ LET c == Len(ret) + 1
           r == make_WFMX_file(data, args.amplitude, ClockAt(c)[1], ClockAt(c)[2])
       IN /\ ret' = Append(ret, [res |-> r.res, warned |-> r.warned])
          /\ data' = r.data
          /\ pc' = IF c < MaxCalls THEN "call" ELSE "done"
    /\ UNCHANGED <<op, args, writes, nb_marker, frame>>

NextWfm == Call_make_WFMX_file

SpecWfm == InitWfm /\ [][NextWfm]_vars

----------------------------------------------------------------------------
(* Python values of the importers.  A dict is the sequence of its           *)
(* <<key, value>> items in insertion order; an Optional argument is None or *)
(* Some(v); a channel label is an int or a str.                             *)

Some(v) == [some |-> v]
IsNone(x) == "none" \in DOMAIN x

IntLabel(n) == [int |-> n]
StrLabel(s) == [str |-> s]

DictKeys(d) == {d[i][1] : i \in DOMAIN d}
DictValues(d) == {d[i][2] : i \in DOMAIN d}
DictGet(d, k) == d[CHOOSE i \in DOMAIN d : d[i][1] = k][2]

ToSet(lst) == {lst[i] : i \in DOMAIN lst}

RECURSIVE Concat(_)
Concat(lsts) == IF lsts = <<>> THEN <<>> ELSE Head(lsts) \o Concat(Tail(lsts))

\* x in s, for strings
Contains(s, x) == Occurrences(s, x) # <<>>

\* s.split('_')[k], 0-indexed k
RECURSIVE SplitUnderscore(_)
SplitUnderscore(s) ==
    LET at == Occurrences(s, "_")
    IN IF at = <<>> THEN <<s>>
       ELSE <<Slice(s, 1, at[1] - 1)>> \o SplitUnderscore(Slice(s, at[1] + 1, Len(s)))

\* the first exception of a list of results evaluated in order, or None
FirstError(results) ==
    IF \E i \in DOMAIN results : IsError(results[i])
    THEN results[CHOOSE i \in DOMAIN results :
                    IsError(results[i]) /\ \A j \in 1..(i - 1) : ~IsError(results[j])]
    ELSE NoneVal

----------------------------------------------------------------------------
(* The forged sequence.  seq is the dict of positions, as the sequence of   *)
(* [key, type, sequencing, content]; content is the dict of sub-positions   *)
(* [key, data, sequencing]; data is the dict of channels [ch, wfm, markers] *)
(* where markers lists the rows under 'm1'..'m4' that are present, in that  *)
(* order; a sequencing dict is a record of the options that are present.    *)

\* fs_schema.validate(seq), lines 726-729 and 932-935
SchemaValidate(seq) ==
    IF \A p \in DOMAIN seq : seq[p].type \in {"subsequence", "element"}
    THEN Return(NoneVal)
    ELSE Raise("InvalidForgedSequenceError", "SchemaError")

\* the items of the three nested loops, in iteration order
FlatData(seq) ==
    Concat([p \in DOMAIN seq |->
        Concat([q \in DOMAIN seq[p].content |->
            [c \in DOMAIN seq[p].content[q].data |->
                [pos1 |-> seq[p].key, pos2 |-> seq[p].content[q].key,
                 ch |-> seq[p].content[q].data[c].ch,
                 wfm |-> seq[p].content[q].data[c].wfm,
                 markers |-> seq[p].content[q].data[c].markers]]])])

\* lines 731-736, 937-942: the channel labels in first-seen order
RECURSIVE Distinct(_)
Distinct(lst) ==
    IF lst = <<>> THEN <<>>
    ELSE LET front == Distinct(SubSeq(lst, 1, Len(lst) - 1))
             last == lst[Len(lst)]
         IN IF last \in ToSet(front) THEN front ELSE Append(front, last)

ChanList(seq) == LET flat == FlatData(seq) IN Distinct([i \in DOMAIN flat |-> flat[i].ch])

\* the default mapping numbering the channels from the last seen to the first
ResolveMapping_LastSeenFirst(chan_list, channel_mapping) ==
    IF IsNone(channel_mapping)
    THEN [ch_ind \in DOMAIN chan_list |->
            <<chan_list[ch_ind], Len(chan_list) + 1 - ch_ind>>]
    ELSE channel_mapping.some

\* lines 738-740, 947-949
ResolveMapping(chan_list, channel_mapping) ==
    IF IsNone(channel_mapping)
    THEN [ch_ind \in DOMAIN chan_list |-> <<chan_list[ch_ind], ch_ind>>]
    ELSE channel_mapping.some

\* the value-set check with a subset test in place of the equality
CheckChannels_ValuesWithinRange(chan_list, amplitudes, channel_mapping) ==
    IF Cardinality(ToSet(chan_list)) # Len(amplitudes)
    THEN Raise("ValueError", "Incorrect number of amplitudes provided.")
    ELSE IF ToSet(chan_list) # DictKeys(channel_mapping)
    THEN Raise("ValueError", "Invalid channel_mapping. The sequence has channels")
    ELSE IF ~(DictValues(channel_mapping) \subseteq 1..Len(chan_list))
    THEN Raise("ValueError", "Invalid channel_mapping. Must map onto")
    ELSE Return(NoneVal)

\* lines 742-753, 951-962
CheckChannels(chan_list, amplitudes, channel_mapping) ==
    IF Cardinality(ToSet(chan_list)) # Len(amplitudes)
    THEN Raise("ValueError", "Incorrect number of amplitudes provided.")
    ELSE IF ToSet(chan_list) # DictKeys(channel_mapping)
    THEN Raise("ValueError", "Invalid channel_mapping. The sequence has channels")
    ELSE IF DictValues(channel_mapping) # 1..Len(chan_list)
    THEN Raise("ValueError", "Invalid channel_mapping. Must map onto")
    ELSE Return(NoneVal)

\* lines 767-775, 973-980: wfm, or np.stack((wfm, *markerdata))
StackData(item) ==
    IF Len(item.markers) > 0
    THEN [ndim |-> 2, rows |-> <<item.wfm>> \o item.markers]
    ELSE [ndim |-> 1, rows |-> <<item.wfm>>]

\* pos_seqs.get(name, default)
Option(pos_seqs, name, default) ==
    IF name \in DOMAIN pos_seqs THEN pos_seqs[name] ELSE default

\* lines 801-805, 840-844, 990-994: the options with their defaults, as
\* <<twait, nrep, jump_input, jump_target, goto>>
Seqing(pos_seqs) ==
    << Option(pos_seqs, "twait", 0), Option(pos_seqs, "nrep", 1),
       Option(pos_seqs, "jump_input", 0), Option(pos_seqs, "jump_target", 0),
       Option(pos_seqs, "goto", 0) >>

\* {k: [d[k] for d in seqings]}[k-th option]
SeqingColumn(seqings, k) == [n \in DOMAIN seqings |-> seqings[n][k]]

----------------------------------------------------------------------------
(* _make_setup_file *)

make_setup_file(sequence) ==
    LET head == Element("RSAPersist", << <<"version", "0.1">> >>, "", <<
                    Leaf("Application", "Pascal"),
                    Leaf("MainSequence", sequence),
                    Element("ProductSpecific", << <<"name", "AWG70002B">> >>, "", <<
                        Leaf("SerialNumber", "B010294"),
                        Leaf("SoftwareVersion", "7.1.0170.0"),
                        Element("CreatorProperties", << <<"name", "">> >>, "", <<>>) >>) >>)
    IN StrReplace(tostring(head), "><", ">\r\n<")

----------------------------------------------------------------------------
(* The .seqx archive: the members written to the zip file, in order, each   *)
(* [name, text] (a str written as such) or [name, bytes].                   *)

TextMember(name, text) == [name |-> name, text |-> text]
BytesMember(name, bytes) == [name |-> name, bytes |-> bytes]

\* lines 872-887, 1103-1116
SEQX_Archive(subseq_names, subseq_files, mainseqname, mainseqsml, wfm_names, wfm_files) ==
    [i \in 1..(IF Len(subseq_names) < Len(subseq_files) THEN Len(subseq_names) ELSE Len(subseq_files)) |->
        TextMember("Sequences/" \o subseq_names[i] \o ".sml", subseq_files[i])]
    \o <<TextMember("Sequences/" \o mainseqname \o ".sml", mainseqsml)>>
    \o [i \in 1..(IF Len(wfm_names) < Len(wfm_files) THEN Len(wfm_names) ELSE Len(wfm_files)) |->
        BytesMember("Waveforms/" \o wfm_names[i] \o ".wfmx", wfm_files[i])]
    \o <<TextMember("setup.xml", make_setup_file(mainseqname)),
         BytesMember("userNotes.txt", <<>>)>>

----------------------------------------------------------------------------
(* The archive builders.  Every clock read of one call returns ImpClock;    *)
(* the containers of the arrays the importers' inputs hold are tabulated.   *)

ImpClock == ClockAt(1)

\* the marker rows given with a waveform of N samples
MarkerRows(mk, N) ==
    IF mk = "none" THEN <<>>
    ELSE IF mk = "one" THEN <<MarkerBits(1, N)>>
    ELSE IF mk = "m2zero" THEN <<MarkerBits(1, N), [j \in 1..N |-> 0]>>
    ELSE <<MarkerBits(1, N), MarkerBits(2, N)>>

\* the samples of a waveform sent to the instrument
LoadSamples == 4

\* data[ch] of the trees: the waveform row and the marker rows
TreeArrays ==
    [p \in {InRangePattern, OutOfRangePattern},
     mk \in {"none", "one", "m2zero", "two"},
     N \in WfmLengths \cup {LoadSamples} |->
        [wfm |-> Tile(p, N), markers |-> MarkerRows(mk, N)]]

ImpArrays ==
    { StackData(TreeArrays[p, mk, N]) :
        p \in {InRangePattern, OutOfRangePattern}, mk \in {"none", "two"},
        N \in WfmLengths }

\* cls.make_WFMX_file(wfm_data, amplitude), lines 778 and 1090
WFMX_Files ==
    [d \in ImpArrays, a \in ListAmplitudes |->
        make_WFMX_file(d, a, ImpClock[1], ImpClock[2]).res]

\* lines 786-828: the descriptor of the subsequence at seq[p]
SEQX_SubseqSML(seq, p, wfmx_filenames, chans) ==
    LET content == seq[p].content
        seqings == [q \in DOMAIN content |-> Seqing(content[q].sequencing)]
        ss_wfm_names == [q \in DOMAIN content |->
            SelectSeq(wfmx_filenames,
                      LAMBDA n : Contains(n, "wfm_" \o FormatD(seq[p].key) \o "_"
                                             \o FormatD(content[q].key)))]
    IN make_SML_file(SeqingColumn(seqings, 1), SeqingColumn(seqings, 2),
                     SeqingColumn(seqings, 3), SeqingColumn(seqings, 4),
                     SeqingColumn(seqings, 5), ss_wfm_names,
                     SubseqName(seq[p].key), chans, <<>>, ImpClock[1], ImpClock[2])

\* lines 834-866: the main descriptor
SEQX_MainSML(seq, seqname, wfmx_filenames, subseqsml_filenames, chans) ==
    LET seqings == [p \in DOMAIN seq |-> Seqing(seq[p].sequencing)]
        subs == SelectSeq([p \in DOMAIN seq |-> p],
                          LAMBDA p : seq[p].type = "subsequence")
        subseq_positions == [i \in DOMAIN subs |-> seq[subs[i]].key]
        asset_names == [p \in DOMAIN seq |->
            IF seq[p].type = "subsequence"
            THEN SelectSeq(subseqsml_filenames,
                           LAMBDA sn : Contains(sn, "_" \o FormatD(seq[p].key)))
            ELSE SelectSeq(wfmx_filenames,
                           LAMBDA wn : Contains(wn, "wfm_" \o FormatD(seq[p].key)))]
    IN make_SML_file(SeqingColumn(seqings, 1), SeqingColumn(seqings, 2),
                     SeqingColumn(seqings, 3), SeqingColumn(seqings, 4),
                     SeqingColumn(seqings, 5), asset_names, seqname, chans,
                     subseq_positions, ImpClock[1], ImpClock[2])

make_SEQX_from_forged_sequence(seq, amplitudes, seqname, channel_mapping) ==
    LET valid == SchemaValidate(seq)
        chan_list == ChanList(seq)
        mapping == ResolveMapping(chan_list, channel_mapping)
        chk == CheckChannels(chan_list, amplitudes, mapping)
        flat == FlatData(seq)
        wfmx_files == [i \in DOMAIN flat |->
            WFMX_Files[StackData(flat[i]), amplitudes[DictGet(mapping, flat[i].ch)]]]
        wfmx_filenames == [i \in DOMAIN flat |->
            WfmName(flat[i].pos1, flat[i].pos2, DictGet(mapping, flat[i].ch))]
        subs == SelectSeq([p \in DOMAIN seq |-> p],
                          LAMBDA p : seq[p].type = "subsequence")
        subseqsml_files == [i \in DOMAIN subs |->
            SEQX_SubseqSML(seq, subs[i], wfmx_filenames, Len(mapping))]
        subseqsml_filenames == [i \in DOMAIN subs |-> SubseqName(seq[subs[i]].key)]
        mainseqsml == SEQX_MainSML(seq, seqname, wfmx_filenames,
                                   subseqsml_filenames, Len(mapping))
    IN IF IsError(valid) THEN valid
       ELSE IF IsError(chk) THEN chk
       ELSE IF ~IsNone(FirstError(wfmx_files)) THEN FirstError(wfmx_files)
       ELSE IF ~IsNone(FirstError(subseqsml_files)) THEN FirstError(subseqsml_files)
       ELSE IF IsError(mainseqsml) THEN mainseqsml
       ELSE Return(SEQX_Archive(subseqsml_filenames,
                                [i \in DOMAIN subs |-> subseqsml_files[i].val],
                                seqname, mainseqsml.val, wfmx_filenames,
                                [i \in DOMAIN flat |-> wfmx_files[i].val]))

make_SEQX_file(trig_waits, nreps, event_jumps, event_jump_to, go_to, wfms, amplitudes, seqname0) ==
    LET seqname == StrReplace(seqname0, " ", "_")
        chans == Len(wfms)
        elms == Len(wfms[1])
        wfm_names == [el \in 1..elms |->
                        [ch \in 1..chans |-> "wfmch" \o FormatD(ch) \o "pos" \o FormatD(el)]]
        \* zip(amplitudes, wfms) stops at the shorter of the two
        zipped == IF Len(amplitudes) < chans THEN Len(amplitudes) ELSE chans
        flat_wfmxs == Concat([c \in 1..zipped |->
                        [e \in DOMAIN wfms[c] |-> WFMX_Files[wfms[c][e], amplitudes[c]]]])
        flat_wfm_names == Concat([c \in 1..chans |-> [e \in 1..elms |-> wfm_names[e][c]]])
        sml_file == make_SML_file(trig_waits, nreps, event_jumps, event_jump_to, go_to,
                                  wfm_names, seqname, chans, <<>>, ImpClock[1], ImpClock[2])
    IN IF wfms = <<>> THEN Raise("IndexError", "list index out of range")
       ELSE IF ~IsNone(FirstError(flat_wfmxs)) THEN FirstError(flat_wfmxs)
       ELSE IF IsError(sml_file) THEN sml_file
       ELSE Return(SEQX_Archive(<<>>, <<>>, seqname, sml_file.val, flat_wfm_names,
                                [i \in DOMAIN flat_wfmxs |-> flat_wfmxs[i].val]))

----------------------------------------------------------------------------
(* The instrument path.  'writes' lists what the driver hands to the        *)
(* transport through write and write_raw, in order.                         *)

Write(command) == [write |-> command]
WriteRaw(msg) == [write_raw |-> msg]

\* '%d' % channel: a label that is a str raises TypeError
FormatChannel(channel) ==
    IF "int" \in DOMAIN channel THEN Return(FormatD(channel.int))
    ELSE Raise("TypeError", "%d format: a number is required, not str")

\* f'{channel}'
LabelStr(channel) == IF "int" \in DOMAIN channel THEN FormatD(channel.int) ELSE channel.str

\* the fraction digits of k/UnitsPerVolt, k in 0..UnitsPerVolt-1
FractionDigits == <<"", ".125", ".25", ".375", ".5", ".625", ".75", ".875">>

\* '%g' % amplitude
FormatG(amplitude) ==
    (IF amplitude < 0 THEN "-" ELSE "")
        \o NatToStr(Abs(amplitude) \div UnitsPerVolt)
        \o FractionDigits[(Abs(amplitude) % UnitsPerVolt) + 1]

\* str(n / 4) for a whole quotient
FormatFloat(n) == NatToStr(n) \o ".0"

\* IEEE 488.2 limit on a single write, lines 239 and 264
MaxWrite == 999999999

\* new_waveform, line 204
new_waveform(waveform_name, size) ==
    Write("WLIST:WAVeform:NEW \"" \o waveform_name \o "\", " \o FormatD(size))

\* _import_waveform_to_wlist, lines 229-233: name_str + size_str for data of
\* len_data bytes
WaveformDataHeader(waveform_name, len_data) ==
    LET name_str == "WLISt:WAVeform:DATA \"" \o waveform_name \o "\""
        size_str == ",0," \o FormatFloat(len_data \div 4) \o ",#"
                        \o FormatD(Len(NatToStr(len_data))) \o FormatD(len_data)
    IN EncodeAscii(name_str \o size_str)

\* _import_waveform_to_wlist, lines 229-242
import_waveform_to_wlist(waveform_name, bytes) ==
    LET msg == WaveformDataHeader(waveform_name, Len(bytes)) \o bytes
    IN IF Len(msg) > MaxWrite THEN Raise("ValueError", "Data too large to transfer")
       ELSE Return(WriteRaw(msg))

\* _set_waveform_marker_data, lines 252-267; listed: the instrument's answer
\* to WLISt:LIST? names the waveform
set_waveform_marker_data(waveform_name, bytes, listed) ==
    LET name_str == "WLISt:WAVeform:MARKER:DATA \"" \o waveform_name \o "\""
        len_data == Len(bytes)
        size_str == ",0," \o FormatD(len_data) \o ",#"
                        \o FormatD(Len(NatToStr(len_data))) \o FormatD(len_data)
        msg == EncodeAscii(name_str \o size_str) \o bytes
    IN IF ~listed THEN Raise("ValueError", "No such waveform in the waveform list")
       ELSE IF Len(msg) > MaxWrite THEN Raise("ValueError", "Data too large to transfer")
       ELSE Return(WriteRaw(msg))

\* _send_waveform, lines 448-469: the marker count appended to _nb_marker
\* (none when the line is not reached) and the marker bytes
SendWaveform_Markers(d) ==
    IF d.ndim = 1 THEN [res |-> Return(<<>>), nb |-> <<0>>]
    ELSE IF Len(d.rows) < 3
    THEN [res |-> Raise("IndexError", "index out of bounds for axis 0"), nb |-> <<>>]
    ELSE LET markers == [j \in DOMAIN d.rows[2] |-> d.rows[2][j] * 64 + d.rows[3][j] * 128]
             nb == IF MaxOf(d.rows[3]) # 0 THEN <<2>> ELSE <<1>>
         IN IF \E j \in DOMAIN markers : markers[j] < 0 \/ markers[j] > 255
            THEN [res |-> Raise("struct.error", "ubyte format requires 0 <= number <= 255"),
                  nb |-> nb]
            ELSE [res |-> Return(markers), nb |-> nb]

\* lines 471-476: max(wfm) > 1 or min(wfm) < -1 after wfm = wfm * scale
SendWaveform_ExceedsRange(wfm, amplitude) ==
    \E j \in DOMAIN wfm :
        LET v == Rescale(wfm[j], amplitude) IN v[1] > v[2] \/ v[1] < -v[2]

\* _send_waveform with the range check after new_waveform
send_waveform_begin_CheckAfterNew(waveform_name, d, amplitude) ==
    LET m == SendWaveform_Markers(d)
    IN IF IsError(m.res) THEN [res |-> m.res, nb |-> m.nb, writes |-> <<>>]
       ELSE IF SendWaveform_ExceedsRange(d.rows[1], amplitude)
       THEN [res |-> Raise("ValueError", "Waveform exceeds specified channel range."),
             nb |-> m.nb, writes |-> <<new_waveform(waveform_name, Len(d.rows[1]))>>]
       ELSE [res |-> Return(NoneVal), nb |-> m.nb,
             writes |-> <<new_waveform(waveform_name, Len(d.rows[1]))>>]

\* _send_waveform, lines 448-481: up to the wait for the new waveform
send_waveform_begin(waveform_name, d, amplitude) ==
    LET m == SendWaveform_Markers(d)
    IN IF IsError(m.res) THEN [res |-> m.res, nb |-> m.nb, writes |-> <<>>]
       ELSE IF SendWaveform_ExceedsRange(d.rows[1], amplitude)
       THEN [res |-> Raise("ValueError", "Waveform exceeds specified channel range."),
             nb |-> m.nb, writes |-> <<>>]
       ELSE [res |-> Return(NoneVal), nb |-> m.nb,
             writes |-> <<new_waveform(waveform_name, Len(d.rows[1]))>>]

\* _send_waveform, lines 483-484: after the wait
send_waveform_import(waveform_name, d, amplitude, listed) ==
    LET wfm == import_waveform_to_wlist(waveform_name, PackFloats(d.rows[1], amplitude))
        mrk == set_waveform_marker_data(waveform_name, SendWaveform_Markers(d).res.val, listed)
    IN IF IsError(wfm) THEN [res |-> wfm, writes |-> <<>>]
       ELSE IF d.ndim = 1 THEN [res |-> Return(NoneVal), writes |-> <<wfm.val>>]
       ELSE IF IsError(mrk) THEN [res |-> mrk, writes |-> <<wfm.val>>]
       ELSE [res |-> Return(NoneVal), writes |-> <<wfm.val, mrk.val>>]

\* _send_sequence, line 1371: the trigger names of the command set
seq_waitinputs == [k \in 0..3 |->
    CASE k = 0 -> "OFF" [] k = 1 -> "ATR" [] k = 2 -> "BTR" [] k = 3 -> "ATR"]

seq_eventinputs == seq_waitinputs

\* lines 1374-1384
SEQ_CheckLengths(trig_waits, nreps, event_jumps, event_jump_to, go_to, elem_names) ==
    SML_CheckLengths(trig_waits, nreps, event_jumps, event_jump_to, go_to, elem_names)

\* what iteration n of the loop at lines 1391-1418 raises, if anything
SEQ_StepError(n, trig_waits, event_jumps, elem_names) ==
    IF trig_waits[n] \notin DOMAIN seq_waitinputs
    THEN Raise("KeyError", FormatD(trig_waits[n]))
    ELSE IF n > Len(event_jumps)
    THEN Raise("IndexError", "list index out of range")
    ELSE IF event_jumps[n] \notin DOMAIN seq_eventinputs
    THEN Raise("KeyError", FormatD(event_jumps[n]))
    ELSE IF \E k \in DOMAIN elem_names[n] : Len(SplitUnderscore(elem_names[n][k])) < 4
    THEN Raise("IndexError", "list index out of range")
    ELSE NoneVal

\* lines 1392-1418: the commands of step n
SEQ_StepCommands(n, trig_waits, nreps, event_jumps, event_jump_to, go_to, elem_names, seqname) ==
    LET step == ":SLIS:SEQ:STEP" \o FormatD(n)
        name == " \"" \o seqname \o "\","
    IN (IF nreps[n] = 0 THEN step \o ":RCO" \o name \o "Infinite;"
        ELSE IF nreps[n] # 1 THEN step \o ":RCO" \o name \o FormatD(nreps[n]) \o ";"
        ELSE "")
       \o (IF seq_waitinputs[trig_waits[n]] # "OFF"
           THEN step \o ":WINPUT" \o name \o seq_waitinputs[trig_waits[n]] \o ";"
           ELSE "")
       \o (IF seq_eventinputs[event_jumps[n]] # "OFF"
           THEN step \o ":EJIN" \o name \o seq_eventinputs[event_jumps[n]] \o ";"
                \o step \o ":EJUMP" \o name
                \o (IF event_jump_to[n] = 0 THEN "Next" ELSE FormatD(event_jump_to[n])) \o ";"
           ELSE "")
       \o (IF go_to[n] # 0 THEN step \o ":GOTO" \o name \o FormatD(go_to[n]) \o ";" ELSE "")
       \o JoinStr([k \in DOMAIN elem_names[n] |->
                    step \o ":TASS" \o SplitUnderscore(elem_names[n][k])[4] \o ":WAV"
                        \o name \o "\"" \o elem_names[n][k] \o "\";"])

\* _send_sequence, lines 1371-1420: the command written, or the exception
send_sequence(trig_waits, nreps, event_jumps, event_jump_to, go_to, elem_names, seqname, chans) ==
    LET chk == SEQ_CheckLengths(trig_waits, nreps, event_jumps, event_jump_to,
                                go_to, elem_names)
        N == Len(trig_waits)
        bad == {n \in 1..N : IsError(SEQ_StepError(n, trig_waits, event_jumps, elem_names))}
    IN IF IsError(chk) THEN chk
       ELSE IF bad # {}
       THEN SEQ_StepError(CHOOSE n \in bad : \A m \in bad : n <= m,
                          trig_waits, event_jumps, elem_names)
       ELSE Return(Write(":SLIS:SEQ:NEW \"" \o seqname \o "\", " \o FormatD(N) \o ", "
                         \o FormatD(chans) \o ";"
                         \o JoinStr([n \in 1..N |->
                              SEQ_StepCommands(n, trig_waits, nreps, event_jumps,
                                               event_jump_to, go_to, elem_names, seqname)])))

\* line 1017: the DAC resolution without marker bits
MaxResolution == 10

\* the results of commands issued in order: what is written before the
\* first exception, and that exception (or None)
RunCommands(results) ==
    [res |-> IF IsNone(FirstError(results)) THEN Return(NoneVal) ELSE FirstError(results),
     writes |-> LET n == Cardinality({i \in DOMAIN results :
                                         \A j \in 1..i : ~IsError(results[j])})
                IN [i \in 1..n |-> results[i].val]]

\* set_output_resolution, line 1436
set_output_resolution(resolution_bit, channel) ==
    IF IsError(FormatChannel(channel)) THEN FormatChannel(channel)
    ELSE Return(Write("SOURce" \o FormatChannel(channel).val \o ":DAC:RESolution "
                      \o FormatD(resolution_bit)))

\* sequence_set_to_channel, line 677
sequence_set_to_channel(seqname, track_nb, channel) ==
    Return(Write("SOURCE" \o LabelStr(channel) \o ":CASSet:SEQuence \"" \o seqname
                 \o "\", " \o LabelStr(track_nb)))

\* set_amplitude, lines 1529-1531
set_amplitude(amplitude, channel) ==
    IF amplitude > MaxAmplitude
    THEN Raise("ValueError", "Specified amplitude exceed the maximum")
    ELSE IF IsError(FormatChannel(channel)) THEN FormatChannel(channel)
    ELSE Return(Write("SOUR" \o FormatChannel(channel).val \o ":VOLT:AMPL "
                      \o FormatG(amplitude)))

\* enable, line 1494
enable(channel) ==
    IF IsError(FormatChannel(channel)) THEN FormatChannel(channel)
    ELSE Return(Write("OUTP" \o FormatChannel(channel).val \o ":STAT ON"))

\* the iteration with the bound taken from the last waveform sent
configure_channel_LastWaveformMarkers(channel, resolution, nb, seqname, amplitudes) ==
    LET max_resolution == MaxResolution - nb[Len(nb)]
        chosen == IF IsNone(resolution) THEN max_resolution ELSE resolution.some
        run == RunCommands(<<set_output_resolution(chosen, channel),
                             sequence_set_to_channel(seqname, channel, channel)>>
                           \o [k \in DOMAIN amplitudes |-> set_amplitude(amplitudes[k], channel)]
                           \o <<enable(channel)>>)
    IN IF nb = <<>>
       THEN [res |-> Raise("ValueError", "max() arg is an empty sequence"),
             writes |-> <<>>, resolution |-> resolution]
       ELSE IF chosen > max_resolution
       THEN [res |-> Raise("ValueError", "Specified resolution exceed the maximum"),
             writes |-> <<>>, resolution |-> resolution]
       ELSE [res |-> run.res, writes |-> run.writes, resolution |-> Some(chosen)]

\* load_broadbean_sequence, lines 1017-1026: one iteration of the loop over
\* chan_list; resolution is the local variable as the iteration finds it
configure_channel(channel, resolution, nb, seqname, amplitudes) ==
    LET max_resolution == MaxResolution - MaxOf(nb)
        chosen == IF IsNone(resolution) THEN max_resolution ELSE resolution.some
        run == RunCommands(<<set_output_resolution(chosen, channel),
                             sequence_set_to_channel(seqname, channel, channel)>>
                           \o [k \in DOMAIN amplitudes |-> set_amplitude(amplitudes[k], channel)]
                           \o <<enable(channel)>>)
    IN IF nb = <<>>
       THEN [res |-> Raise("ValueError", "max() arg is an empty sequence"),
             writes |-> <<>>, resolution |-> resolution]
       ELSE IF chosen > max_resolution
       THEN [res |-> Raise("ValueError", "Specified resolution exceed the maximum"),
             writes |-> <<>>, resolution |-> resolution]
       ELSE [res |-> run.res, writes |-> run.writes, resolution |-> Some(chosen)]

\* the sequencing stage taking a subsequence position as an element
load_make_sequence_SubsequenceAsElement(seq, seqname, channel_mapping, waveform_names) ==
    LET seqings == [p \in DOMAIN seq |-> Seqing(seq[p].sequencing)]
        asset_names == [p \in DOMAIN seq |->
            SelectSeq(waveform_names,
                      LAMBDA wn : SplitUnderscore(wn)[2] = FormatD(seq[p].key))]
    IN IF seq = <<>> THEN Raise("IndexError", "list index out of range")
       ELSE send_sequence(SeqingColumn(seqings, 1), SeqingColumn(seqings, 2),
                          SeqingColumn(seqings, 3), SeqingColumn(seqings, 4),
                          SeqingColumn(seqings, 5), asset_names, seqname,
                          Len(channel_mapping))

\* load_broadbean_sequence, lines 985-1014: the sequence command, or the
\* exception
load_make_sequence(seq, seqname, channel_mapping, waveform_names) ==
    LET seqings == [p \in DOMAIN seq |-> Seqing(seq[p].sequencing)]
        asset_names == [p \in DOMAIN seq |->
            SelectSeq(waveform_names,
                      LAMBDA wn : SplitUnderscore(wn)[2] = FormatD(seq[p].key))]
    IN IF \E p \in DOMAIN seq : seq[p].type = "subsequence"
       THEN Raise("ValueError", "Subsequence are not supported")
       ELSE IF seq = <<>> THEN Raise("IndexError", "list index out of range")
       ELSE send_sequence(SeqingColumn(seqings, 1), SeqingColumn(seqings, 2),
                          SeqingColumn(seqings, 3), SeqingColumn(seqings, 4),
                          SeqingColumn(seqings, 5), asset_names, seqname,
                          Len(channel_mapping))

\* lines 930-962: what the validation raises, if anything
load_validate(seq, amplitudes, channel_mapping) ==
    IF IsError(SchemaValidate(seq)) THEN SchemaValidate(seq)
    ELSE CheckChannels(ChanList(seq), amplitudes,
                       ResolveMapping(ChanList(seq), channel_mapping))

----------------------------------------------------------------------------
(* SpecImp: one call of an importer, or of _send_waveform, on a newly       *)
(* constructed instrument object.  The wait for the operation to complete   *)
(* polls the instrument, which answers as it will.                          *)

MaxPositions == 2

LabelLists ==
    { <<IntLabel(1)>>, <<IntLabel(1), IntLabel(2)>>, <<StrLabel("A"), IntLabel(1)>> }

\* the sequencing dict of the n-th position: options left out, and given
PosSequencing(n) ==
    IF n % 2 = 1 THEN <<>>
    ELSE [twait |-> 1, nrep |-> 2, jump_input |-> 2, jump_target |-> 1, goto |-> 1]

\* the key of the p-th inserted position of a tree of P positions: the
\* insertion rank, keys with a gap (1, 10, 11, ...), or keys inserted from
\* the largest to the smallest
PosKey(kind, P, p) ==
    IF kind \in {"sparse", "sparsesub"} THEN (IF p = 1 THEN 1 ELSE 8 + p)
    ELSE IF kind = "reversed" THEN P + 1 - p
    ELSE p

\* a forged sequence of P positions with one waveform per label (each with
\* the marker rows mk; with "mixed" the first waveform alone has two), as the
\* dict holds it (in insertion order); the last position is of the given
\* kind: an element, a subsequence of two sub-positions, of an unknown type,
\* or an element whose last waveform leaves the channel range or lacks one
\* sample
MakeTree(P, labels, kind, mk, N) ==
    [p \in 1..P |->
        [key |-> PosKey(kind, P, p),
         type |-> IF p < P THEN "element"
                  ELSE IF kind \in {"subsequence", "sparsesub"} THEN "subsequence"
                  ELSE IF kind = "badtype" THEN "loop" ELSE "element",
         sequencing |-> PosSequencing(p),
         content |->
            [q \in 1..(IF p = P /\ kind \in {"subsequence", "sparsesub"} THEN 2 ELSE 1) |->
                [key |-> q,
                 sequencing |-> PosSequencing(q + 1),
                 data |->
                    [c \in DOMAIN labels |->
                        LET last == p = P /\ c = Len(labels)
                            len == IF last /\ kind = "short" THEN N - 1 ELSE N
                            arrays == TreeArrays[IF last /\ kind = "high"
                                                 THEN OutOfRangePattern ELSE InRangePattern,
                                                 IF mk # "mixed" THEN mk
                                                 ELSE IF p = 1 /\ c = 1 THEN "two"
                                                 ELSE "none",
                                                 len]
                        IN [ch |-> labels[c], wfm |-> arrays.wfm,
                            markers |-> arrays.markers]]]]]]

\* the channel mappings given for the labels: none, every assignment of
\* 1..C+1 to the labels, one key missing, one key too many
MappingOptions(labels) ==
    {NoneVal}
    \cup { Some([i \in DOMAIN labels |-> <<labels[i], v[i]>>]) :
             v \in [DOMAIN labels -> 1..(Len(labels) + 1)] }
    \cup { Some([i \in 1..(Len(labels) - 1) |-> <<labels[i], i>>]),
           Some([i \in 1..(Len(labels) + 1) |->
                   IF i <= Len(labels) THEN <<labels[i], i>> ELSE <<IntLabel(9), i>>]) }

\* the first C amplitudes of a list
FirstAmplitudes(C) == SubSeq(<<MaxAmplitude, MaxAmplitude \div 2>>, 1, C)

ForgedKinds ==
    { <<"plain", "none">>, <<"plain", "two">>, <<"subsequence", "two">>,
      <<"badtype", "none">>, <<"high", "two">>, <<"short", "none">>,
      <<"sparse", "none">>, <<"reversed", "none">>, <<"sparsesub", "none">> }

\* every kind of tree with the default mapping, and the one-position tree
\* with every mapping and amplitudes list
ForgedInputs ==
    { [seq |-> MakeTree(P, labels, k[1], k[2], MinSamples),
       amplitudes |-> FirstAmplitudes(Len(labels)), seqname |-> "seq",
       channel_mapping |-> NoneVal] :
        P \in 1..MaxPositions, labels \in LabelLists, k \in ForgedKinds }
    \cup UNION { { [seq |-> MakeTree(1, labels, "plain", "none", MinSamples),
                    amplitudes |-> a, seqname |-> "seq", channel_mapping |-> m] :
                     a \in AmplitudeLists, m \in MappingOptions(labels) } :
                 labels \in LabelLists }

\* the labels of the trees of load_broadbean_sequence: those above, and a
\* tree that uses channel 2 alone
LoadLabelLists == LabelLists \cup { <<IntLabel(2)>> }

LoadKinds ==
    { <<"plain", "none">>, <<"plain", "two">>, <<"plain", "m2zero">>,
      <<"plain", "one">>, <<"plain", "mixed">>, <<"subsequence", "two">>,
      <<"badtype", "none">>, <<"high", "two">> }

\* <<output, resolution>>
OutputOptions ==
    { <<FALSE, NoneVal>>, <<TRUE, NoneVal>>, <<TRUE, Some(MaxResolution - 2)>>,
      <<TRUE, Some(MaxResolution)>> }

LoadAmplitudeOptions == {NoneVal} \cup {Some(l) : l \in LoadAmplitudeLists}

\* every kind of tree with the default mapping, and the one-position trees
\* without markers and with two with every mapping, each with every
\* amplitudes list and output option
LoadInputs ==
    { [seq |-> MakeTree(P, labels, k[1], k[2], LoadSamples), seqname |-> "seq",
       channel_mapping |-> NoneVal, amplitudes |-> a,
       resolution |-> o[2], output |-> o[1]] :
        P \in 1..MaxPositions, labels \in LoadLabelLists, k \in LoadKinds,
        a \in {NoneVal, Some(FirstAmplitudes(2))}, o \in OutputOptions }
    \cup UNION { { [seq |-> tree, seqname |-> "seq", channel_mapping |-> m,
                    amplitudes |-> a, resolution |-> o[2], output |-> o[1]] :
                     tree \in { MakeTree(1, labels, "plain", mk, LoadSamples) :
                                  mk \in {"none", "two"} },
                     m \in MappingOptions(labels), a \in LoadAmplitudeOptions,
                     o \in OutputOptions } :
                 labels \in LabelLists }

\* the step options of a table: <<twait, nrep, jump_input, jump_target, goto>>
TableOptions == << <<0, 1, 0, 0, 0>>, <<1, 0, 2, 1, 1>>, <<3, 5, 0, 2, 0>> >>

TableColumn(N, k) == [n \in 1..N |-> TableOptions[((n - 1) % Len(TableOptions)) + 1][k]]

\* wfms of chans channels of elms arrays; the last array of the last
\* channel is of the given kind
TableWfms(chans, elms, kind, mk) ==
    [c \in 1..chans |->
        [e \in 1..elms |->
            LET last == c = chans /\ e = elms
                len == IF last /\ kind = "short" THEN MinSamples - 1 ELSE MinSamples
            IN StackData(TreeArrays[IF last /\ kind = "high"
                                    THEN OutOfRangePattern ELSE InRangePattern, mk, len])]]

TableInputs ==
    { [trig_waits |-> TableColumn(elms, 1), nreps |-> TableColumn(elms, 2),
       event_jumps |-> TableColumn(elms, 3), event_jump_to |-> TableColumn(elms, 4),
       go_to |-> TableColumn(elms, 5), wfms |-> TableWfms(chans, elms, kind, mk),
       amplitudes |-> a, seqname |-> "my seq"] :
        chans \in 1..2, elms \in 1..MaxPositions, kind \in {"plain", "short", "high"},
        mk \in {"none", "two"}, a \in {FirstAmplitudes(1), FirstAmplitudes(2)} }

SendInputs ==
    { [waveform_name |-> WfmName(1, 1, 1), data |-> ArrayOf(p, k, LoadSamples),
       amplitude |-> a] :
        p \in WfmPatterns \cup {InRangePattern, OutOfRangePattern}, k \in 0..3,
        a \in PackAmplitudes }

InitImp ==
    /\ \/ op = "make_SEQX_from_forged_sequence" /\ args \in ForgedInputs
       \/ op = "make_SEQX_file" /\ args \in TableInputs
       \/ op = "load_broadbean_sequence" /\ args \in LoadInputs
       \/ op = "_send_waveform" /\ args \in SendInputs
    /\ ret = <<>>
    /\ pc = "call"
    /\ data = <<>> /\ writes = <<>> /\ nb_marker = <<>>
    /\ frame = [i |-> 1, c |-> 1, resolution |-> NoneVal, opc |-> ""]

\* the locals of load_broadbean_sequence after lines 937-949
LoadChanList == ChanList(args.seq)

LoadMapping == ResolveMapping(LoadChanList, args.channel_mapping)

LoadAmplitudes ==
    IF IsNone(args.amplitudes) THEN [i \in DOMAIN LoadChanList |-> DefaultAmplitude]
    ELSE args.amplitudes.some

LoadItems == FlatData(args.seq)

\* lines 970-972: the name of the i-th waveform of the loop
LoadWaveformName(i) ==
    WfmName(LoadItems[i].pos1, LoadItems[i].pos2, DictGet(LoadMapping, LoadItems[i].ch))

\* the arguments of the running _send_waveform: those of the caller, or of
\* line 981
SendArgs ==
    IF op = "_send_waveform" THEN args
    ELSE [waveform_name |-> LoadWaveformName(frame.i),
          data |-> StackData(LoadItems[frame.i]),
          amplitude |-> LoadAmplitudes[DictGet(LoadMapping, LoadItems[frame.i].ch)]]

Call_make_SEQX_from_forged_sequence ==
    /\ pc = "call" /\ op = "make_SEQX_from_forged_sequence"
    /\ ret' = Append(ret, make_SEQX_from_forged_sequence(
                              args.seq, args.amplitudes, args.seqname, args.channel_mapping))
    /\ pc' = "done"
    /\ UNCHANGED <<op, args, data, writes, nb_marker, frame>>

Call_make_SEQX_file ==
    /\ pc = "call" /\ op = "make_SEQX_file"
    /\ ret' = Append(ret, make_SEQX_file(args.trig_waits, args.nreps, args.event_jumps,
                                         args.event_jump_to, args.go_to, args.wfms,
                                         args.amplitudes, args.seqname))
    /\ pc' = "done"
    /\ UNCHANGED <<op, args, data, writes, nb_marker, frame>>

\* the start of the call with the marker counts of earlier calls kept
Call_load_broadbean_sequence_KeepMarkers ==
    /\ pc = "call" /\ op = "load_broadbean_sequence"
    /\ nb_marker' = nb_marker
    /\ LET chk == load_validate(args.seq, LoadAmplitudes, args.channel_mapping)
       IN IF IsError(chk)
          THEN ret' = Append(ret, chk) /\ pc' = "done" /\ frame' = frame
          ELSE /\ ret' = ret
               /\ pc' = IF LoadItems = <<>> THEN "sequence" ELSE "send"
               /\ frame' = [i |-> 1, c |-> 1, resolution |-> args.resolution,
                             opc |-> frame.opc]
    /\ UNCHANGED <<op, args, data, writes>>

\* lines 930-962
Call_load_broadbean_sequence ==
    /\ pc = "call" /\ op = "load_broadbean_sequence"
    /\ nb_marker' = <<>>
    /\ LET chk == load_validate(args.seq, LoadAmplitudes, args.channel_mapping)
       IN IF IsError(chk)
          THEN ret' = Append(ret, chk) /\ pc' = "done" /\ frame' = frame
          ELSE /\ ret' = ret
               /\ pc' = IF LoadItems = <<>> THEN "sequence" ELSE "send"
               /\ frame' = [i |-> 1, c |-> 1, resolution |-> args.resolution,
                             opc |-> frame.opc]
    /\ UNCHANGED <<op, args, data, writes>>

\* _send_waveform, lines 448-481
SendWaveform_Begin ==
    /\ pc = IF op = "_send_waveform" THEN "call" ELSE "send"
    /\ op \in {"_send_waveform", "load_broadbean_sequence"}
    /\ LET b == send_waveform_begin(SendArgs.waveform_name, SendArgs.data, SendArgs.amplitude)
       IN /\ nb_marker' = nb_marker \o b.nb
          /\ writes' = writes \o b.writes
          /\ IF IsError(b.res)
             THEN ret' = Append(ret, b.res) /\ pc' = "done"
             ELSE ret' = ret /\ pc' = "opc"
    /\ UNCHANGED <<op, args, data, frame>>

\* the positions of a call inside wait_for_operation_to_complete: called
\* from _send_waveform (line 482), from load_broadbean_sequence (line
\* 1028), from send_binary_file (line 182), or by the caller
OpcStates == {"opc", "opc_play", "opc_file", "opc_wait"}

\* the answers to *OPC? that keep the loop polling: an answer other than 1,
\* and an exception raised by the query (a timeout of the transport)
OpcPendingAnswers == {"0", "error"}

\* wait_for_operation_to_complete, lines 136-139: the instrument answers 1.
\* frame.opc is the outcome of the last query ("" before the first one).
Opc_Complete ==
    /\ pc \in OpcStates
    /\ pc' = IF pc = "opc" THEN "import" ELSE "done"
    /\ ret' = IF pc = "opc" THEN ret ELSE Append(ret, Return(NoneVal))
    /\ frame' = [frame EXCEPT !.opc = "1"]
    /\ UNCHANGED <<op, args, data, writes, nb_marker>>

\* lines 136-141: another answer, or an exception of the query: poll again
Opc_Pending ==
    /\ pc \in OpcStates
    /\ \E answer \in OpcPendingAnswers : frame' = [frame EXCEPT !.opc = answer]
    /\ UNCHANGED <<op, args, data, ret, writes, nb_marker, pc>>

\* _send_waveform, lines 483-484, and the loop of lines 967-982
SendWaveform_Import ==
    /\ pc = "import"
    /\ \E listed \in BOOLEAN :
        LET r == send_waveform_import(SendArgs.waveform_name, SendArgs.data,
                                      SendArgs.amplitude, listed)
        IN /\ writes' = writes \o r.writes
           /\ IF IsError(r.res)
              THEN ret' = Append(ret, r.res) /\ pc' = "done" /\ frame' = frame
              ELSE IF op = "_send_waveform"
              THEN ret' = Append(ret, Return(NoneVal)) /\ pc' = "done" /\ frame' = frame
              ELSE /\ ret' = ret
                   /\ pc' = IF frame.i < Len(LoadItems) THEN "send" ELSE "sequence"
                   /\ frame' = [frame EXCEPT !.i = frame.i + 1]
    /\ UNCHANGED <<op, args, data, nb_marker>>

\* lines 984-1015
Load_Sequence ==
    /\ pc = "sequence"
    /\ LET r == load_make_sequence(args.seq, args.seqname, LoadMapping,
                                   [i \in DOMAIN LoadItems |-> LoadWaveformName(i)])
       IN IF IsError(r)
          THEN ret' = Append(ret, r) /\ pc' = "done" /\ writes' = writes
          ELSE /\ writes' = Append(writes, r.val)
               /\ IF args.output /\ LoadChanList # <<>>
                  THEN ret' = ret /\ pc' = "output"
                  ELSE IF args.output THEN ret' = ret /\ pc' = "play"
                  ELSE ret' = Append(ret, Return(NoneVal)) /\ pc' = "done"
    /\ UNCHANGED <<op, args, data, nb_marker, frame>>

\* lines 1016-1026: the iteration for chan_list[frame.c]
Load_ConfigureChannel ==
    /\ pc = "output"
    /\ LET r == configure_channel(LoadChanList[frame.c], frame.resolution, nb_marker,
                                  args.seqname, LoadAmplitudes)
       IN /\ writes' = writes \o r.writes
          /\ IF IsError(r.res)
             THEN ret' = Append(ret, r.res) /\ pc' = "done" /\ frame' = frame
             ELSE /\ ret' = ret
                  /\ pc' = IF frame.c < Len(LoadChanList) THEN "output" ELSE "play"
                  /\ frame' = [frame EXCEPT !.c = frame.c + 1, !.resolution = r.resolution]
    /\ UNCHANGED <<op, args, data, nb_marker>>

\* lines 1027-1028: play(wait_for_running=False), line 1726
Load_Play ==
    /\ pc = "play"
    /\ writes' = Append(writes, Write("AWGControl:RUN"))
    /\ pc' = "opc_play"
    /\ UNCHANGED <<op, args, data, ret, nb_marker, frame>>

NextImp ==
    \/ Call_make_SEQX_from_forged_sequence
    \/ Call_make_SEQX_file
    \/ Call_load_broadbean_sequence
    \/ SendWaveform_Begin
    \/ Opc_Complete
    \/ Opc_Pending
    \/ SendWaveform_Import
    \/ Load_Sequence
    \/ Load_ConfigureChannel
    \/ Load_Play

SpecImp == InitImp /\ [][NextImp]_vars

----------------------------------------------------------------------------
(* SpecRun: one call of an instrument-control operation that waits for the  *)
(* instrument or transfers a large message.  A bytes value too long to      *)
(* list is given by its length: [nbytes |-> n]; a message made of a listed  *)
(* head and such a body is [head |-> <bytes>, nbytes |-> n].  The clock     *)
(* (time.perf_counter) counts tenths of a second.                           *)

\* the largest clock reading
MaxClock == 4

\* the timeouts given to play, in tenths of a second
PlayTimeouts == {0, 2}

\* the answers to AWGControl:RSTATe?, line 131
RunStates == <<"stopped", "waiting for trigger", "running">>

\* the sizes of the files sent: small, the largest one that fits in one
\* write with its header, and one byte more
BinfileSizes == {4, MaxWrite - 33, MaxWrite - 32}

\* the sample counts of the waveforms sent: small, large and fitting in one
\* write, and too large
LargeSampleCounts == {4, 249999980, 250000000}

\* set_current_directory, lines 91-93
set_current_directory(directory) ==
    Write("MMEMory:CDIRectory \"" \o
          (IF Len(directory) > 2 /\ SubSeq(directory, 1, 2) = "c:"
           THEN SubSeq(directory, 3, Len(directory)) ELSE directory) \o "\"")

\* line 53
DEFAULT_SEQUENCE_PATH == "c:\\Users\\OEM\\Documents\\Sequences"

\* send_binary_file, lines 155-181: what is written up to the wait, or the
\* exception; binfile is given by its length
send_binary_file(binfile, filename, path, overwrite) ==
    LET path1 == IF IsNone(path) \/ path.some = "" THEN DEFAULT_SEQUENCE_PATH ELSE path.some
        name_str == EncodeAscii("MMEMory:DATA \"" \o filename \o "\"")
        len_file == binfile.nbytes
        len_str == Len(NatToStr(len_file))
        size_str == EncodeAscii(",#" \o FormatD(len_str) \o FormatD(len_file))
        len_msg == Len(name_str) + Len(size_str) + len_file
    IN IF len_msg > MaxWrite
       THEN [res |-> Raise("ValueError", "File too large to transfer"), writes |-> <<>>]
       ELSE [res |-> Return(NoneVal),
             writes |-> <<set_current_directory(path1)>>
                        \o (IF overwrite
                            THEN <<Write("SYSTem:ERRor:DIALog 0"),
                                   Write("MMEMory:DELete \"" \o filename \o "\""),
                                   Write("SYSTem:ERRor:DIALog 1")>>
                            ELSE <<>>)
                        \o <<WriteRaw([head |-> name_str \o size_str, nbytes |-> len_file])>>]

\* _import_waveform_to_wlist, lines 229-242, for data given by its length
import_waveform_to_wlist_sized(waveform_name, len_data) ==
    LET head == WaveformDataHeader(waveform_name, len_data)
    IN IF Len(head) + len_data > MaxWrite
       THEN Raise("ValueError", "Data too large to transfer")
       ELSE Return(WriteRaw([head |-> head, nbytes |-> len_data]))

\* play, lines 1730-1737: one iteration of the wait loop, the clock reading
\* 'now' after the sleep and the query, the instrument in run state 'state'
play_poll(start_time, now, timeout, state) ==
    LET running == RunStates[state + 1] \in {"running", "waiting for trigger"}
        waited_for == start_time - now
    IN IF waited_for > timeout
       THEN [res |-> Raise("RuntimeError", "Reached timeout while waiting for instrument to play."),
             running |-> running]
       ELSE [res |-> Return(NoneVal), running |-> running]

RunInputs ==
    [ wait_for_operation_to_complete |-> { <<>> },
      play |-> [wait_for_running : BOOLEAN, timeout : PlayTimeouts],
      send_binary_file |->
          [binfile : {[nbytes |-> n] : n \in BinfileSizes}, filename : {"a.seqx"},
           path : {NoneVal, Some("c:\\seq")}, overwrite : BOOLEAN],
      _send_waveform |->
          [waveform_name : {WfmName(1, 1, 1)},
           data : {[shape |-> <<N>>] : N \in LargeSampleCounts},
           amplitude : {DefaultAmplitude}] ]

InitRun ==
    /\ op \in DOMAIN RunInputs
    /\ args \in RunInputs[op]
    /\ ret = <<>>
    /\ pc = "call"
    /\ data = <<>> /\ writes = <<>> /\ nb_marker = <<>>
    /\ \E now \in 0..1 :
          frame = [start_time |-> 0, now |-> now, running |-> FALSE, opc |-> ""]

Call_wait_for_operation_to_complete ==
    /\ pc = "call" /\ op = "wait_for_operation_to_complete"
    /\ pc' = "opc_wait"
    /\ UNCHANGED <<op, args, data, ret, writes, nb_marker, frame>>

\* play, lines 1726-1729
Call_play ==
    /\ pc = "call" /\ op = "play"
    /\ writes' = Append(writes, Write("AWGControl:RUN"))
    /\ IF args.wait_for_running
       THEN /\ frame' = [frame EXCEPT !.start_time = frame.now, !.running = FALSE]
            /\ pc' = "play_wait" /\ ret' = ret
       ELSE frame' = frame /\ pc' = "done" /\ ret' = Append(ret, Return(NoneVal))
    /\ UNCHANGED <<op, args, data, nb_marker>>

\* lines 1730-1737: the sleep and the query take dt tenths of a second; the
\* query answers a run state, or raises
Play_Poll ==
    /\ pc = "play_wait"
    /\ \E dt \in 1..2 :
        /\ frame.now + dt <= MaxClock
        /\ \/ \E state \in 0..2 :
                 LET r == play_poll(frame.start_time, frame.now + dt, args.timeout, state)
                 IN /\ frame' = [frame EXCEPT !.now = frame.now + dt, !.running = r.running]
                    /\ IF IsError(r.res) THEN ret' = Append(ret, r.res) /\ pc' = "done"
                       ELSE IF r.running THEN ret' = Append(ret, Return(NoneVal)) /\ pc' = "done"
                       ELSE ret' = ret /\ pc' = pc
           \/ /\ frame' = [frame EXCEPT !.now = frame.now + dt]
              /\ ret' = Append(ret, Raise("VisaIOError", "VI_ERROR_TMO"))
              /\ pc' = "done"
    /\ UNCHANGED <<op, args, data, writes, nb_marker>>

\* send_binary_file, lines 155-181
Call_send_binary_file ==
    /\ pc = "call" /\ op = "send_binary_file"
    /\ LET r == send_binary_file(args.binfile, args.filename, args.path, args.overwrite)
       IN /\ writes' = writes \o r.writes
          /\ IF IsError(r.res) THEN ret' = Append(ret, r.res) /\ pc' = "done"
             ELSE ret' = ret /\ pc' = "opc_file"
    /\ UNCHANGED <<op, args, data, nb_marker, frame>>

\* _send_waveform, lines 448-481, for a one-dimensional array of samples
\* within the channel range, given by its shape
SendWaveformSized_Begin ==
    /\ pc = "call" /\ op = "_send_waveform"
    /\ nb_marker' = Append(nb_marker, 0)
    /\ writes' = Append(writes, new_waveform(args.waveform_name, args.data.shape[1]))
    /\ pc' = "opc"
    /\ UNCHANGED <<op, args, data, ret, frame>>

\* _send_waveform, line 483
SendWaveformSized_Import ==
    /\ pc = "import" /\ op = "_send_waveform"
    /\ LET r == import_waveform_to_wlist_sized(args.waveform_name, 4 * args.data.shape[1])
       IN IF IsError(r)
          THEN ret' = Append(ret, r) /\ writes' = writes
          ELSE ret' = Append(ret, Return(NoneVal)) /\ writes' = Append(writes, r.val)
    /\ pc' = "done"
    /\ UNCHANGED <<op, args, data, nb_marker, frame>>

NextRun ==
    \/ Call_wait_for_operation_to_complete
    \/ Call_play
    \/ Play_Poll
    \/ Call_send_binary_file
    \/ SendWaveformSized_Begin
    \/ SendWaveformSized_Import
    \/ Opc_Complete
    \/ Opc_Pending

SpecRun == InitRun /\ [][NextRun]_vars

\* the interpreter keeps running the call: a step that can be taken is taken
SpecRunFair == SpecRun /\ WF_vars(NextRun)

----------------------------------------------------------------------------
(* SpecSes: up to MaxCalls calls of load_broadbean_sequence and of          *)
(* _send_waveform, one after the other, on one instrument object: 'ret'     *)
(* and 'writes' run over the calls, nb_marker is the object's attribute.    *)

\* trees of one position on channel 1: without markers, with two markers,
\* and a subsequence of two sub-positions with two markers (rejected after
\* its waveforms were sent); resolution None
SessionLoadInputs ==
    { [seq |-> MakeTree(1, <<IntLabel(1)>>, k[1], k[2], LoadSamples), seqname |-> "seq",
       channel_mapping |-> NoneVal, amplitudes |-> NoneVal,
       resolution |-> NoneVal, output |-> o] :
        k \in { <<"plain", "none">>, <<"plain", "two">>, <<"subsequence", "two">> },
        o \in BOOLEAN }

\* a waveform alone, and one with two marker rows
SessionSendInputs ==
    { [waveform_name |-> WfmName(1, 1, 1), data |-> ArrayOf(InRangePattern, k, LoadSamples),
       amplitude |-> DefaultAmplitude] : k \in {0, 2} }

InitSes ==
    /\ \/ op = "load_broadbean_sequence" /\ args \in SessionLoadInputs
       \/ op = "_send_waveform" /\ args \in SessionSendInputs
    /\ ret = <<>>
    /\ pc = "call"
    /\ data = <<>> /\ writes = <<>> /\ nb_marker = <<>>
    /\ frame = [i |-> 1, c |-> 1, resolution |-> NoneVal, opc |-> ""]

\* the caller makes its next call on the same object
Ses_NextCall ==
    /\ pc = "done" /\ Len(ret) < MaxCalls
    /\ \/ op' = "load_broadbean_sequence" /\ args' \in SessionLoadInputs
       \/ op' = "_send_waveform" /\ args' \in SessionSendInputs
    /\ pc' = "call"
    /\ frame' = [i |-> 1, c |-> 1, resolution |-> NoneVal, opc |-> ""]
    /\ UNCHANGED <<data, ret, writes, nb_marker>>

NextSes ==
    \/ Call_load_broadbean_sequence
    \/ SendWaveform_Begin
    \/ Opc_Complete
    \/ Opc_Pending
    \/ SendWaveform_Import
    \/ Load_Sequence
    \/ Load_ConfigureChannel
    \/ Load_Play
    \/ Ses_NextCall

SpecSes == InitSes /\ [][NextSes]_vars

----------------------------------------------------------------------------
(* SpecTab: a caller gives one step table to _make_SML_file and then to     *)
(* _send_sequence.                                                          *)

\* the step tables without subsequence steps
StepTableInputs ==
    { a \in SML_TableInputs : a.subseq_positions = <<>> /\ a.seqname = "seq" }

InitTab ==
    /\ op = "_make_SML_file" /\ args \in StepTableInputs
    /\ ret = <<>>
    /\ pc = "call"
    /\ data = <<>> /\ writes = <<>> /\ nb_marker = <<>> /\ frame = <<>>

\* the caller goes on to _send_sequence with the same arrays
Tab_NextCall ==
    /\ pc = "done" /\ op = "_make_SML_file"
    /\ op' = "_send_sequence" /\ pc' = "call"
    /\ UNCHANGED <<args, data, ret, writes, nb_marker, frame>>

\* _send_sequence, lines 1371-1420
Call_send_sequence ==
    /\ pc = "call" /\ op = "_send_sequence"
    /\ LET r == send_sequence(args.trig_waits, args.nreps, args.event_jumps,
                              args.event_jump_to, args.go_to, args.elem_names,
                              args.seqname, args.chans)
       IN IF IsError(r) THEN ret' = Append(ret, r) /\ writes' = writes
          ELSE ret' = Append(ret, Return(NoneVal)) /\ writes' = Append(writes, r.val)
    /\ pc' = "done"
    /\ UNCHANGED <<op, args, data, nb_marker, frame>>

NextTab == Call_make_SML_file \/ Tab_NextCall \/ Call_send_sequence

SpecTab == InitTab /\ [][NextTab]_vars

----------------------------------------------------------------------------
(* Reading a header back *)

RECURSIVE StrToNat(_)
StrToNat(s) ==
    IF s = "" THEN 0
    ELSE 10 * StrToNat(SubSeq(s, 1, Len(s) - 1))
         + (CHOOSE d \in 0..9 : DigitChar(d) = SubSeq(s, Len(s), Len(s)))

\* the value of the DataFile 'offset' attribute of a header text
DeclaredOffset(xmlstr) ==
    LET at == Occurrences(SubSeq(xmlstr, 1, 40), "offset=\"")[1] + Len("offset=\"")
    IN StrToNat(SubSeq(xmlstr, at, at + offsetdigits - 1))

SML_ListLengths ==
    { Len(args.trig_waits), Len(args.nreps), Len(args.event_jumps),
      Len(args.event_jump_to), Len(args.go_to) }

\* the text of the first <tag>...</tag> element of a header text
TagText(xmlstr, tag) ==
    LET a == Occurrences(xmlstr, "<" \o tag \o ">")[1] + Len(tag) + 2
        z == Occurrences(xmlstr, "</" \o tag \o ">")[1]
    IN SubSeq(xmlstr, a, z - 1)

\* a container read back: the header text up to the declared offset, and
\* the bytes after it
ContainerHeader(b) == DecodeAscii(b, 1, DeclaredOffset(DecodeAscii(b, 1, 40)))

ContainerPayload(b) == SubSeq(b, DeclaredOffset(DecodeAscii(b, 1, 40)) + 1, Len(b))

\* the sample count of the caller's array
InputSamples == Len(args.data0.rows[1])

\* the c-th call returned a container
Returned(c) == c \in DOMAIN ret /\ ~IsError(ret[c].res)

\* the j-th packed sample of a container of N samples, as <<num, den>>
PackedSampleAt(b, j) ==
    LET off == Len(b) - Len(ContainerPayload(b))
    IN UnpackFloat(SubSeq(b, off + 4 * j - 3, off + 4 * j))

\* the marker byte of sample j in a container of N samples with markers
MarkerByteAt(b, N, j) == b[Len(b) - N + j]

Bit(byte, n) == (byte \div Pow2(n)) % 2

\* C1: whenever the five per-step lists given to _make_SML_file do not all
\* have the same length, the call raises the validation error (ValueError)
\* and returns no descriptor.
C1_UnequalLengthsRejected ==
    (pc = "done" /\ op = "_make_SML_file" /\ Cardinality(SML_ListLengths) > 1)
        => (IsError(ret[1]) /\ ret[1].err = "ValueError")

\* C2: in every header returned by _make_WFMX_file_header and every
\* descriptor returned by _make_SML_file, the number in the DataFile
\* offset attribute equals the length of the returned text.
C2_OffsetIsHeaderLength ==
    (pc = "done" /\ ~IsError(ret[1])) => DeclaredOffset(ret[1].val) = Len(ret[1].val)

C2_Witness ==
    /\ pc = "done" /\ op = "_make_SML_file" /\ ~IsError(ret[1])
    /\ Len(args.trig_waits) = 2 /\ args.seqname = "s000000000"
    /\ DeclaredOffset(ret[1].val) > 2000

\* C3: on the container-building path, for an amplitude A > 0, every sample
\* packed into the payload of a returned container lies in [-1, 1] (a sample
\* beyond +-A/2 is clipped), and the call returns a container.
C3_PackedSamplesClipped ==
    (op = "make_WFMX_file" /\ args.amplitude > 0 /\ InputSamples >= MinSamples)
        => \A c \in DOMAIN ret :
              /\ Returned(c)
              /\ \A j \in 1..InputSamples :
                    Abs(PackedSampleAt(ret[c].res.val, j)[1])
                        <= PackedSampleAt(ret[c].res.val, j)[2]

\* C4: for a waveform with k marker rows of values in {0,1}, k in 1..4, bit
\* i-1 of the packed marker byte at every sample position is the value of
\* marker i at that position, for i in 1..k.
C4_MarkerBitsReconstruct ==
    (op = "make_WFMX_file" /\ args.data0.ndim = 2 /\ Returned(1))
        => \A j \in 1..InputSamples : \A i \in 1..(Len(args.data0.rows) - 1) :
              Bit(MarkerByteAt(ret[1].res.val, InputSamples, j), i - 1)
                  = args.data0.rows[i + 1][j]

\* the header text of the c-th container without the timestamp of the c-th
\* call, and the payload
WithoutTimestamp(c) ==
    << StrReplace(ContainerHeader(ret[c].res.val),
                  Timestamp(ClockAt(c)[1], ClockAt(c)[2]), ""),
       ContainerPayload(ret[c].res.val) >>

\* C5: make_WFMX_file is a pure, idempotent transform: after each call the
\* caller's array holds the values it held before, and two successive calls
\* on the same array with the same amplitude return the same bytes except
\* within the timestamp field.
C5_PureIdempotent ==
    op = "make_WFMX_file"
        => /\ data = args.data0
           /\ (Returned(1) /\ Returned(2)) => WithoutTimestamp(1) = WithoutTimestamp(2)

\* C9: for every container returned by make_WFMX_file for N samples, the
\* bytes after the declared offset number 4*N without markers and 4*N + N
\* with markers, the header's NumberSamples is N, and the header declares
\* MarkersIncluded=true exactly when the payload holds the N marker bytes.
C9_PayloadMatchesHeader ==
    op = "make_WFMX_file"
        => \A c \in DOMAIN ret :
              Returned(c) =>
                LET hdr == ContainerHeader(ret[c].res.val)
                    payload == Len(ret[c].res.val) - Len(hdr)
                    N == InputSamples
                IN /\ payload = IF args.data0.ndim = 1 THEN 4 * N ELSE 4 * N + N
                   /\ TagText(hdr, "NumberSamples") = NatToStr(N)
                   /\ TagText(hdr, "MarkersIncluded") \in {"true", "false"}
                   /\ (TagText(hdr, "MarkersIncluded") = "true") <=> (payload = 4 * N + N)

C9_Witness ==
    /\ op = "make_WFMX_file" /\ Returned(1) /\ Returned(2)
    /\ args.data0.ndim = 2 /\ Len(args.data0.rows) = 3
    /\ Len(ret[2].res.val) - Len(ContainerHeader(ret[2].res.val)) = 5 * MinSamples
    /\ TagText(ContainerHeader(ret[2].res.val), "MarkersIncluded") = "true"

----------------------------------------------------------------------------
(* The importers and the transfer of a waveform *)

\* the exceptions of the validations of load_broadbean_sequence: the schema,
\* lines 951-962, 996-997, 475-476 and 1020-1021
ValidationError(r) ==
    /\ IsError(r)
    /\ \/ r.err = "InvalidForgedSequenceError"
       \/ r.msg \in { "Incorrect number of amplitudes provided.",
                      "Invalid channel_mapping. The sequence has channels",
                      "Invalid channel_mapping. Must map onto",
                      "Subsequence are not supported",
                      "Waveform exceeds specified channel range.",
                      "Specified resolution exceed the maximum" }

\* C6: every execution of load_broadbean_sequence that ends with a
\* validation error (tree shape, channel mapping, amplitude count, a
\* subsequence position, a sample outside the channel range, a resolution
\* above the maximum) has issued no write and no write_raw.
C6_FailFast ==
    (op = "load_broadbean_sequence" /\ pc = "done" /\ ValidationError(ret[1]))
        => writes = <<>>

\* C7: when a sample of the waveform given to _send_waveform, rescaled by
\* 2/amplitude, is above 1 or below -1, the call ends with an exception
\* and has issued none of the commands of that waveform; for an array of
\* a shape the method reads (no marker row, or two and more) the exception
\* is the ValueError of the range check.
C7_OutOfRangeNotSent ==
    (op = "_send_waveform"
        /\ SendWaveform_ExceedsRange(args.data.rows[1], args.amplitude))
        => /\ writes = <<>>
           /\ pc \in {"call", "done"}
           /\ pc = "done" =>
                /\ IsError(ret[1])
                /\ (args.data.ndim = 1 \/ Len(args.data.rows) >= 3)
                      => ret[1] = Raise("ValueError",
                                        "Waveform exceeds specified channel range.")

C7_Witness ==
    /\ op = "_send_waveform" /\ pc = "done"
    /\ args.data.ndim = 2 /\ Len(args.data.rows) = 3
    /\ SendWaveform_ExceedsRange(args.data.rows[1], args.amplitude)
    /\ ret = <<Raise("ValueError", "Waveform exceeds specified channel range.")>>
    /\ writes = <<>>

\* the sample counts of the waveforms given to an archive builder
ArchiveWaveformLengths ==
    IF op = "make_SEQX_file"
    THEN { Len(args.wfms[c][e].rows[1]) : c \in DOMAIN args.wfms, e \in DOMAIN args.wfms[1] }
    ELSE { Len(FlatData(args.seq)[i].wfm) : i \in DOMAIN FlatData(args.seq) }

\* C8: make_SEQX_file and make_SEQX_from_forged_sequence return no archive
\* when one of their waveforms has fewer than 2400 samples: the call ends
\* with the exception of the container builder, or an earlier one.
C8_ShortWaveformNoArchive ==
    (op \in {"make_SEQX_file", "make_SEQX_from_forged_sequence"} /\ pc = "done"
        /\ \E n \in ArchiveWaveformLengths : n < MinSamples)
        => IsError(ret[1])

\* the call ended with an exception of the channel checks, lines 742-753
\* and 951-962
ChannelsRejected ==
    /\ pc = "done" /\ IsError(ret[1]) /\ ret[1].err = "ValueError"
    /\ ret[1].msg \in { "Incorrect number of amplitudes provided.",
                        "Invalid channel_mapping. The sequence has channels",
                        "Invalid channel_mapping. Must map onto" }

\* C10: in make_SEQX_from_forged_sequence and load_broadbean_sequence, a
\* channel mapping whose set of values is not 1..C, C the number of
\* distinct channels of the tree, ends the call with a ValueError of the
\* channel checks before anything is written; when the checks pass, the
\* mapping is a bijection from the channels of the tree onto 1..C.
C10_MappingOntoDenseRange ==
    (op \in {"make_SEQX_from_forged_sequence", "load_broadbean_sequence"}
        /\ pc # "call" /\ ~IsError(SchemaValidate(args.seq)))
        => LET chan_list == ChanList(args.seq)
               mapping == ResolveMapping(chan_list, args.channel_mapping)
           IN /\ DictValues(mapping) # 1..Len(chan_list)
                    => (ChannelsRejected /\ writes = <<>>)
              /\ ~ChannelsRejected
                    => /\ DictKeys(mapping) = ToSet(chan_list)
                       /\ DictValues(mapping) = 1..Len(chan_list)
                       /\ \A i, j \in DOMAIN mapping :
                             (mapping[i][2] = mapping[j][2]) => i = j

C10_Witness ==
    /\ op = "load_broadbean_sequence" /\ pc = "done"
    /\ Len(ChanList(args.seq)) = 2
    /\ ~IsNone(args.channel_mapping)
    /\ DictValues(args.channel_mapping.some) = {1, 3}
    /\ ret = <<Raise("ValueError", "Invalid channel_mapping. Must map onto")>>
    /\ writes = <<>>

\* the members of the returned archive
Members == ret[1].val

\* the channel checks raised on the mapping, lines 745-753 and 954-962
MappingRejected ==
    /\ ChannelsRejected
    /\ ret[1].msg \in { "Invalid channel_mapping. The sequence has channels",
                        "Invalid channel_mapping. Must map onto" }

\* C11: in both importers a supplied mapping whose keys are not the channel
\* labels of the tree ends the call with a ValueError of the channel checks
\* before anything is written; with the mapping omitted the mapping checks
\* never raise, and the i-th channel in first-seen order becomes physical
\* channel i: the container named wfm_p_q_i of a returned archive is the one
\* built from the data of that channel with the i-th amplitude.
C11_MappingKeysAreChannels ==
    (op \in {"make_SEQX_from_forged_sequence", "load_broadbean_sequence"}
        /\ pc # "call" /\ ~IsError(SchemaValidate(args.seq)))
        => LET chan_list == ChanList(args.seq)
               flat == FlatData(args.seq)
           IN IF ~IsNone(args.channel_mapping)
              THEN DictKeys(args.channel_mapping.some) # ToSet(chan_list)
                      => (ChannelsRejected /\ writes = <<>>)
              ELSE /\ ~MappingRejected
                   /\ (op = "make_SEQX_from_forged_sequence" /\ ~IsError(ret[1]))
                        => \A i \in DOMAIN flat :
                              LET k == CHOOSE k \in DOMAIN chan_list :
                                           chan_list[k] = flat[i].ch
                              IN \E m \in DOMAIN Members :
                                    Members[m] =
                                        BytesMember(
                                            "Waveforms/" \o WfmName(flat[i].pos1, flat[i].pos2, k)
                                                \o ".wfmx",
                                            WFMX_Files[StackData(flat[i]),
                                                       args.amplitudes[k]].val)

C11_Witness ==
    /\ op = "make_SEQX_from_forged_sequence" /\ pc = "done" /\ ~IsError(ret[1])
    /\ IsNone(args.channel_mapping)
    /\ ChanList(args.seq) = <<StrLabel("A"), IntLabel(1)>>
    /\ \E i \in DOMAIN FlatData(args.seq) :
          /\ FlatData(args.seq)[i].ch = IntLabel(1)
          /\ MinOf(FlatData(args.seq)[i].wfm) < MinOf(InRangePattern)

\* the texts of every <tag>...</tag> element of a descriptor, in order
AllTagTexts(xmlstr, tag) ==
    LET a == Occurrences(xmlstr, "<" \o tag \o ">")
        z == Occurrences(xmlstr, "</" \o tag \o ">")
    IN [k \in DOMAIN a |-> SubSeq(xmlstr, a[k] + Len(tag) + 2, z[k] - 1)]

\* the descriptors of the returned archive
Descriptors ==
    SelectSeq(Members, LAMBDA m : "text" \in DOMAIN m /\ Contains(m.name, "Sequences/"))

\* the member names the assets of a descriptor stand for
AssetMembers(xmlstr) ==
    LET names == AllTagTexts(xmlstr, "AssetName")
        types == AllTagTexts(xmlstr, "AssetType")
    IN [k \in DOMAIN names |->
          IF types[k] = "Sequence" THEN "Sequences/" \o names[k] \o ".sml"
          ELSE "Waveforms/" \o names[k] \o ".wfmx"]

ArchiveReturned ==
    /\ op \in {"make_SEQX_file", "make_SEQX_from_forged_sequence"}
    /\ pc = "done" /\ ~IsError(ret[1])

\* C12: in every archive returned by make_SEQX_file or
\* make_SEQX_from_forged_sequence, each asset named by a step of a
\* descriptor of the archive is exactly one member of the archive:
\* Waveforms/<name>.wfmx for a Waveform, Sequences/<name>.sml for a Sequence.
C12_AssetsArePresent ==
    ArchiveReturned
        => \A d \in DOMAIN Descriptors :
              \A k \in DOMAIN AssetMembers(Descriptors[d].text) :
                 Cardinality({ m \in DOMAIN Members :
                                 Members[m].name = AssetMembers(Descriptors[d].text)[k] }) = 1

\* the text of the descriptor 'name' of the returned archive
DescriptorText(name) ==
    Members[CHOOSE m \in DOMAIN Members :
                Members[m].name = "Sequences/" \o name \o ".sml"].text

\* the text of the n-th Step element of a descriptor
StepText(xmlstr, n) ==
    SubSeq(xmlstr, Occurrences(xmlstr, "<Step>")[n], Occurrences(xmlstr, "</Step>")[n])

\* the names of the containers built for position pos1 (and sub-position
\* pos2, when it is not 0), in the order of the walk
WaveformsOf(pos1, pos2) ==
    LET flat == FlatData(args.seq)
        mapping == ResolveMapping(ChanList(args.seq), args.channel_mapping)
        own == SelectSeq(flat, LAMBDA it : it.pos1 = pos1 /\ (pos2 = 0 \/ it.pos2 = pos2))
    IN [i \in DOMAIN own |-> WfmName(own[i].pos1, own[i].pos2, DictGet(mapping, own[i].ch))]

\* C13: in an archive of make_SEQX_from_forged_sequence, the step of the
\* main descriptor made for a leaf position p lists exactly the waveforms
\* wfm_p_q_c of position p, the step made for a subsequence position p
\* lists exactly subsequence_p, and step q of the descriptor of
\* subsequence p lists exactly the waveforms wfm_p_q_c.
C13_StepAssetsOfOwnPosition ==
    (op = "make_SEQX_from_forged_sequence" /\ ArchiveReturned)
        => \A n \in DOMAIN args.seq :
              LET pos == args.seq[n]
                  main == StepText(DescriptorText(args.seqname), n)
              IN IF pos.type = "subsequence"
                 THEN /\ AllTagTexts(main, "AssetName") = <<SubseqName(pos.key)>>
                      /\ \A q \in DOMAIN pos.content :
                            AllTagTexts(StepText(DescriptorText(SubseqName(pos.key)), q),
                                        "AssetName")
                                = WaveformsOf(pos.key, pos.content[q].key)
                 ELSE AllTagTexts(main, "AssetName") = WaveformsOf(pos.key, 0)

\* the position of the tree with the n-th smallest key
NthPosition(seq, n) ==
    seq[CHOOSE p \in DOMAIN seq :
            Cardinality({ r \in DOMAIN seq : seq[r].key <= seq[p].key }) = n]

\* C14: step n of the main descriptor of make_SEQX_from_forged_sequence
\* carries the sequencing options and the assets of the position with the
\* n-th smallest key, in whatever order the keys were inserted.
C14_AscendingKeyOrder ==
    (op = "make_SEQX_from_forged_sequence" /\ ArchiveReturned)
        => \A n \in DOMAIN args.seq :
              LET pos == NthPosition(args.seq, n)
                  step == StepText(DescriptorText(args.seqname), n)
              IN /\ TagText(step, "WaitInput") = waitinputs[Seqing(pos.sequencing)[1]]
                 /\ TagText(step, "EventJumpInput") = eventinputs[Seqing(pos.sequencing)[3]]
                 /\ TagText(step, "GoTo")
                        = (IF Seqing(pos.sequencing)[5] = 0 THEN "Next" ELSE "StepIndex")
                 /\ (IF pos.type = "subsequence" THEN {SubseqName(pos.key)}
                     ELSE ToSet(WaveformsOf(pos.key, 0)))
                        \subseteq ToSet(AllTagTexts(step, "AssetName"))

\* C15: in the main descriptor of make_SEQX_from_forged_sequence the assets
\* of step n are tagged 'Sequence' when the position that step n realises
\* is a subsequence and 'Waveform' otherwise, whatever the position keys.
C15_AssetTypeFollowsPositionType ==
    (op = "make_SEQX_from_forged_sequence" /\ ArchiveReturned)
        => \A n \in DOMAIN args.seq :
              LET types == AllTagTexts(StepText(DescriptorText(args.seqname), n),
                                       "AssetType")
              IN \A k \in DOMAIN types :
                    types[k] = (IF args.seq[n].type = "subsequence"
                                THEN "Sequence" ELSE "Waveform")

\* the member names an archive is to hold for the arguments of the call
ExpectedMembers ==
    IF op = "make_SEQX_file"
    THEN { "Sequences/" \o StrReplace(args.seqname, " ", "_") \o ".sml",
           "setup.xml", "userNotes.txt" }
         \cup { "Waveforms/wfmch" \o FormatD(c) \o "pos" \o FormatD(e) \o ".wfmx" :
                  c \in DOMAIN args.wfms, e \in DOMAIN args.wfms[1] }
    ELSE { "Sequences/" \o args.seqname \o ".sml", "setup.xml", "userNotes.txt" }
         \cup { "Sequences/" \o SubseqName(args.seq[p].key) \o ".sml" :
                  p \in { r \in DOMAIN args.seq : args.seq[r].type = "subsequence" } }
         \cup UNION { { "Waveforms/" \o WaveformsOf(args.seq[p].key, 0)[i] \o ".wfmx" :
                          i \in DOMAIN WaveformsOf(args.seq[p].key, 0) } :
                      p \in DOMAIN args.seq }

\* C16: the members of every archive returned by make_SEQX_file or
\* make_SEQX_from_forged_sequence are the main descriptor, one descriptor
\* per subsequence, one container per waveform (chans*elms of them for
\* make_SEQX_file), setup.xml and an empty userNotes.txt, each once and
\* nothing else.
C16_ArchiveMembers ==
    ArchiveReturned
        => /\ { Members[m].name : m \in DOMAIN Members } = ExpectedMembers
           /\ Len(Members) = Cardinality(ExpectedMembers)
           /\ \A m \in DOMAIN Members :
                 Members[m].name = "userNotes.txt" => Members[m] = BytesMember("userNotes.txt", <<>>)

----------------------------------------------------------------------------
(* The steps of a descriptor *)

\* the value of the first attribute name="..." of a text
AttribValue(xmlstr, name) ==
    LET a == Occurrences(xmlstr, name \o "=\"")[1] + Len(name) + 2
        rest == SubSeq(xmlstr, a, Len(xmlstr))
    IN SubSeq(rest, 1, Occurrences(rest, "\"")[1] - 1)

\* _make_SML_file returned a descriptor
DescriptorReturned == op = "_make_SML_file" /\ pc = "done" /\ ~IsError(ret[1])

\* C17: a descriptor returned by _make_SML_file for N steps has N Step
\* elements, StepCount N, the StepNumbers 1..N in order, and in each step
\* one FlagSet per channel whose flags A, B, C, D are 'NoChange'.
C17_StepsAndFlags ==
    DescriptorReturned
        => LET N == Len(args.trig_waits)
               xmlstr == ret[1].val
           IN /\ Len(Occurrences(xmlstr, "<Step>")) = N
              /\ Len(Occurrences(xmlstr, "</Step>")) = N
              /\ AttribValue(xmlstr, "StepCount") = NatToStr(N)
              /\ AllTagTexts(xmlstr, "StepNumber") = [n \in 1..N |-> NatToStr(n)]
              /\ \A n \in 1..N :
                    LET step == StepText(xmlstr, n)
                    IN /\ TagText(step, "StepNumber") = NatToStr(n)
                       /\ Len(Occurrences(step, "<FlagSet>")) = args.chans
                       /\ Len(Occurrences(step, "<Flag name=")) = 4 * args.chans
                       /\ \A f \in {"A", "B", "C", "D"} :
                             Len(Occurrences(step, "<Flag name=\"" \o f
                                                   \o "\">NoChange</Flag>")) = args.chans

C17_Witness ==
    /\ DescriptorReturned
    /\ Len(args.trig_waits) = 2 /\ args.chans = 2
    /\ AllTagTexts(ret[1].val, "StepNumber") = <<"1", "2">>
    /\ Len(Occurrences(ret[1].val, "<FlagSet>")) = 4

\* C18: in a descriptor of _make_SML_file each step n carries the encoding
\* of its own inputs: Repeat 'Infinite' with RepeatCount 1 for nreps[n] = 0,
\* 'Once' with RepeatCount 1 for 1, else 'RepeatCount' with the count;
\* WaitInput None, TrigA, TrigB, Internal for trig_waits[n] = 0, 1, 2, 3;
\* GoTo 'Next' for go_to[n] = 0, else 'StepIndex' with the step number.
C18_StepFieldsOfOwnInputs ==
    DescriptorReturned
        => \A n \in DOMAIN args.trig_waits :
              LET step == StepText(ret[1].val, n)
                  nrep == args.nreps[n]
                  twait == args.trig_waits[n]
                  goto == args.go_to[n]
              IN /\ TagText(step, "Repeat")
                        = (CASE nrep = 0 -> "Infinite" [] nrep = 1 -> "Once"
                             [] OTHER -> "RepeatCount")
                 /\ TagText(step, "RepeatCount")
                        = (IF nrep \in {0, 1} THEN "1" ELSE NatToStr(nrep))
                 /\ TagText(step, "WaitInput")
                        = (CASE twait = 0 -> "None" [] twait = 1 -> "TrigA"
                             [] twait = 2 -> "TrigB" [] twait = 3 -> "Internal")
                 /\ TagText(step, "GoTo") = (IF goto = 0 THEN "Next" ELSE "StepIndex")
                 /\ goto # 0 => TagText(step, "GoToStep") = NatToStr(goto)

C18_Witness ==
    /\ DescriptorReturned
    /\ args.nreps = <<1, 0>> /\ args.go_to = <<0, 0>>
    /\ args.trig_waits = <<0, 1>> /\ args.event_jumps = <<0, 0>>
    /\ TagText(StepText(ret[1].val, 1), "Repeat") = "Once"
    /\ TagText(StepText(ret[1].val, 1), "WaitInput") = "None"
    /\ TagText(StepText(ret[1].val, 1), "GoTo") = "Next"
    /\ TagText(StepText(ret[1].val, 2), "Repeat") = "Infinite"
    /\ TagText(StepText(ret[1].val, 2), "WaitInput") = "TrigA"

\* C19: in a descriptor of _make_SML_file a step with event_jumps[n] = 0 has
\* EventJumpInput 'None' and no jump target taken from event_jump_to[n]
\* (EventJumpTo stays 'Next'); a step with event_jumps[n] in 1..3 has the
\* input TrigA, TrigB, Internal and the target 'Next' for event_jump_to[n]
\* = 0, else 'StepIndex' with that step number.
C19_EventJumpFields ==
    DescriptorReturned
        => \A n \in DOMAIN args.trig_waits :
              LET step == StepText(ret[1].val, n)
                  input == args.event_jumps[n]
                  target == args.event_jump_to[n]
              IN IF input = 0
                 THEN /\ TagText(step, "EventJumpInput") = "None"
                      /\ TagText(step, "EventJumpTo") = "Next"
                 ELSE /\ TagText(step, "EventJumpInput")
                            = (CASE input = 1 -> "TrigA" [] input = 2 -> "TrigB"
                                 [] input = 3 -> "Internal")
                      /\ TagText(step, "EventJumpTo")
                            = (IF target = 0 THEN "Next" ELSE "StepIndex")
                      /\ target # 0 => TagText(step, "EventJumpToStep") = NatToStr(target)

----------------------------------------------------------------------------
(* The output configuration of load_broadbean_sequence *)

\* the markers _send_waveform counts for an item of the tree: none without
\* marker rows, two when the second row holds a non-zero value, else one
MarkersUsed(item) ==
    IF item.markers = <<>> THEN 0
    ELSE IF \E j \in DOMAIN item.markers[2] : item.markers[2][j] # 0 THEN 2
    ELSE 1

\* the resolutions of the DAC resolution commands written so far
ResolutionsWritten ==
    LET cmds == SelectSeq(writes, LAMBDA w : "write" \in DOMAIN w
                                             /\ Contains(w.write, ":DAC:RESolution "))
    IN [k \in DOMAIN cmds |->
          SubSeq(cmds[k].write,
                 Occurrences(cmds[k].write, ":DAC:RESolution ")[1] + Len(":DAC:RESolution "),
                 Len(cmds[k].write))]

\* load_broadbean_sequence with output enabled has sent every waveform and
\* the sequence (line 1005), and is at or past the loop of line 1016
OutputStage ==
    /\ op = "load_broadbean_sequence" /\ args.output
    /\ pc \in {"output", "play", "opc_play", "done"}
    /\ \E k \in DOMAIN writes :
          "write" \in DOMAIN writes[k] /\ Contains(writes[k].write, ":SLIS:SEQ:NEW ")

\* C20: in load_broadbean_sequence with output enabled, without a resolution
\* argument every DAC resolution written is 10 minus the largest number of
\* markers of a waveform sent in the call; a resolution argument above that
\* bound ends the call with the ValueError and no resolution written; one
\* within the bound is written unchanged; a call that completes has written
\* the resolution once per channel.
C20_ResolutionFollowsMarkers ==
    OutputStage
        => LET bound == MaxResolution
                          - MaxOf([i \in DOMAIN LoadItems |-> MarkersUsed(LoadItems[i])])
               expected == IF IsNone(args.resolution) THEN bound ELSE args.resolution.some
           IN /\ \A k \in DOMAIN ResolutionsWritten :
                    ResolutionsWritten[k] = NatToStr(expected)
              /\ (expected > bound /\ pc \notin {"output"})
                    => /\ pc = "done"
                       /\ ret = <<Raise("ValueError",
                                        "Specified resolution exceed the maximum")>>
                       /\ ResolutionsWritten = <<>>
              /\ (pc = "done" /\ ~IsError(ret[1]))
                    => Len(ResolutionsWritten) = Len(LoadChanList)

C20_Witness ==
    /\ OutputStage /\ pc = "done" /\ ~IsError(ret[1])
    /\ IsNone(args.resolution)
    /\ Len(LoadChanList) = 2
    /\ MarkersUsed(LoadItems[1]) = 2 /\ MarkersUsed(LoadItems[Len(LoadItems)]) = 0
    /\ ResolutionsWritten = <<"8", "8">>

\* the positions in 'writes' of the commands holding the text cmd
CommandsAt(cmd) ==
    {k \in DOMAIN writes : "write" \in DOMAIN writes[k] /\ Contains(writes[k].write, cmd)}

\* the largest member of a non-empty set of positions
LastOf(S) == CHOOSE k \in S : \A j \in S : j <= k

\* load_broadbean_sequence with output enabled has returned without an
\* exception
OutputCompleted ==
    /\ op = "load_broadbean_sequence" /\ args.output
    /\ pc = "done" /\ ~IsError(ret[1])

\* C21: after load_broadbean_sequence with output enabled completes, the last
\* amplitude command addressed to each physical channel c carries
\* amplitudes[c-1], the channel is enabled after that command, and the play
\* command comes after every channel was configured and enabled.
C21_OwnAmplitude ==
    OutputCompleted
        => \A c \in DOMAIN LoadChanList :
              LET ampl == CommandsAt("SOUR" \o FormatD(c) \o ":VOLT:AMPL ")
                  on == CommandsAt("OUTP" \o FormatD(c) \o ":STAT ON")
                  run == CommandsAt("AWGControl:RUN")
              IN /\ ampl # {} /\ on # {} /\ run # {}
                 /\ writes[LastOf(ampl)]
                      = Write("SOUR" \o FormatD(c) \o ":VOLT:AMPL " \o FormatG(LoadAmplitudes[c]))
                 /\ LastOf(ampl) < LastOf(on)
                 /\ \A k \in run : LastOf(on) < k

\* s.startswith(prefix)
StartsWith(s, prefix) == Len(s) >= Len(prefix) /\ SubSeq(s, 1, Len(prefix)) = prefix

\* the positions in 'writes' of the output-configuration commands
ConfigCommands ==
    CommandsAt(":DAC:RESolution ") \cup CommandsAt(":CASSet:SEQuence ")
        \cup CommandsAt(":VOLT:AMPL ") \cup CommandsAt(":STAT ON")

\* the command w configures physical channel c, and assigns track c to it
AddressedTo(w, c, seqname) ==
    \/ StartsWith(w, "SOURce" \o FormatD(c) \o ":DAC:RESolution ")
    \/ w = "SOURCE" \o FormatD(c) \o ":CASSet:SEQuence \"" \o seqname \o "\", " \o FormatD(c)
    \/ StartsWith(w, "SOUR" \o FormatD(c) \o ":VOLT:AMPL ")
    \/ w = "OUTP" \o FormatD(c) \o ":STAT ON"

\* C22: every output-configuration command of load_broadbean_sequence (DAC
\* resolution, track assignment, amplitude, output enable) is addressed to a
\* physical channel number in 1..C, C the number of channels of the tree,
\* and track t is assigned to physical channel t.
C22_AddressedToPhysicalChannel ==
    op = "load_broadbean_sequence"
        => \A k \in ConfigCommands :
              \E c \in DOMAIN LoadChanList : AddressedTo(writes[k].write, c, args.seqname)

----------------------------------------------------------------------------
(* Waiting for the instrument *)

\* C23: the poll loop of wait_for_operation_to_complete always terminates: a
\* call that is inside the loop leaves it, by returning once the instrument
\* answers 1 or by failing with a timeout error when it never does.
C23_OpcTerminates ==
    (pc \in OpcStates) ~> (pc \notin OpcStates)

\* C24: play(wait_for_running=True, timeout=T) is inside its wait loop only
\* while no more than T has elapsed since the wait started (once more has
\* elapsed without a 'running' or 'waiting for trigger' state the call has
\* raised the timeout error), and a call that saw such a state within T has
\* returned without error.
C24_PlayTimeout ==
    (op = "play" /\ args.wait_for_running)
        => /\ pc = "play_wait" => frame.now - frame.start_time <= args.timeout
           /\ (pc = "done" /\ frame.running /\ frame.now - frame.start_time <= args.timeout)
                 => ret = <<Return(NoneVal)>>

----------------------------------------------------------------------------
(* The single-write limit *)

\* the call ended with the capacity error of a transfer
CapacityError ==
    /\ pc = "done"
    /\ ret \in { <<Raise("ValueError", "File too large to transfer")>>,
                 <<Raise("ValueError", "Data too large to transfer")>> }

\* C25: a transfer (send_binary_file, _send_waveform) whose message exceeds
\* the single-write limit raises the capacity error before any write of the
\* transfer: no message above the limit is written, and when the capacity
\* error is raised nothing was written (for _send_waveform not even the
\* new-waveform command).
C25_CapacityErrorBeforeWrites ==
    op \in {"send_binary_file", "_send_waveform"}
        => /\ \A k \in DOMAIN writes :
                 "write_raw" \in DOMAIN writes[k]
                     => Len(writes[k].write_raw.head) + writes[k].write_raw.nbytes <= MaxWrite
           /\ CapacityError => writes = <<>>

----------------------------------------------------------------------------
(* Subsequences in the two paths *)

\* the keys of the positions of type subsequence
SubsequenceKeys(seq) == {seq[p].key : p \in {q \in DOMAIN seq : seq[q].type = "subsequence"}}

\* the names of the sub-sequence descriptors of the returned archive
SubsequenceDescriptors ==
    SelectSeq([k \in DOMAIN Members |-> Members[k].name],
              LAMBDA name : StartsWith(name, "Sequences/subsequence_"))

\* C26: load_broadbean_sequence on a tree with a position of type
\* subsequence never issues the sequence-creation command and never
\* returns normally: the call ends with an exception, which is the
\* ValueError 'Subsequence are not supported' once every waveform was sent;
\* make_SEQX_from_forged_sequence on a tree with such positions returns an
\* archive with one sub-sequence descriptor per subsequence position.
C26_SubsequenceRejectedByLoad ==
    /\ (op = "load_broadbean_sequence" /\ SubsequenceKeys(args.seq) # {})
          => /\ CommandsAt(":SLIS:SEQ:NEW ") = {}
             /\ pc \notin {"output", "play", "opc_play"}
             /\ pc = "done" => IsError(ret[1])
             /\ (pc = "done" /\ frame.i > Len(LoadItems))
                   => ret = <<Raise("ValueError", "Subsequence are not supported")>>
    /\ (op = "make_SEQX_from_forged_sequence" /\ pc = "done"
            /\ SubsequenceKeys(args.seq) # {})
          => /\ ~IsError(ret[1])
             /\ Len(SubsequenceDescriptors) = Cardinality(SubsequenceKeys(args.seq))
             /\ ToSet(SubsequenceDescriptors)
                  = {"Sequences/subsequence_" \o FormatD(k) \o ".sml" :
                        k \in SubsequenceKeys(args.seq)}

C26_Witness ==
    /\ op = "load_broadbean_sequence" /\ SubsequenceKeys(args.seq) # {}
    /\ Len(args.seq) = 2 /\ Len(LoadChanList) = 2
    /\ pc = "done" /\ frame.i > Len(LoadItems)
    /\ ret = <<Raise("ValueError", "Subsequence are not supported")>>
    /\ CommandsAt("WLIST:WAVeform:NEW ") # {}

----------------------------------------------------------------------------
(* Back-patching the offset *)

\* the text of the header or descriptor of the call as serialised, with the
\* line breaks, before the offset is written (lines 354-355, 1321-1322)
Serialized ==
    StrReplace(
        tostring(IF op = "_make_SML_file"
                 THEN SML_Tree(Len(args.trig_waits), args.trig_waits, args.nreps,
                               args.event_jumps, args.event_jump_to, args.go_to,
                               args.elem_names, args.seqname, args.chans,
                               args.subseq_positions,
                               Timestamp(args.clock[1], args.clock[2]))
                 ELSE WFMX_HeaderTree(args.num_samples, args.markers_included,
                                      Timestamp(args.clock[1], args.clock[2]))),
        "><", ">\r\n<")

\* C27: a returned waveform header or sequence descriptor differs from the
\* text serialised before back-patching in the value of the DataFile
\* 'offset' attribute alone: every character outside that value (sequence
\* name, asset names, repeat counts, step targets, NumberSamples) is as
\* serialised, also when such a value contains nine '0' characters in a row.
C27_OnlyOffsetPatched ==
    (op \in {"_make_SML_file", "_make_WFMX_file_header"} /\ pc = "done" /\ ~IsError(ret[1]))
        => LET at == Occurrences(Serialized, "offset=\"")[1] + Len("offset=\"")
           IN /\ Len(ret[1].val) = Len(Serialized)
              /\ SubSeq(ret[1].val, 1, at - 1) = SubSeq(Serialized, 1, at - 1)
              /\ SubSeq(ret[1].val, at + offsetdigits, Len(ret[1].val))
                   = SubSeq(Serialized, at + offsetdigits, Len(Serialized))

----------------------------------------------------------------------------
(* The marker counts over several calls *)

\* the running load_broadbean_sequence, with output enabled and no
\* resolution given, has written its sequence command and has not raised
AutoResolutionStage ==
    /\ op = "load_broadbean_sequence" /\ args.output /\ IsNone(args.resolution)
    /\ \/ pc \in {"output", "play", "opc_play"}
       \/ pc = "done" /\ ~IsError(ret[Len(ret)])

\* C28: whatever calls of load_broadbean_sequence (completed or failed) and
\* of _send_waveform came before on the same object, during a call of
\* load_broadbean_sequence the marker-count accumulator holds the counts of
\* the waveforms sent so far in that call and no others, and the DAC
\* resolution it selects is 10 minus the largest count among the waveforms
\* of that call.
C28_MarkerCountsOfThisCall ==
    op = "load_broadbean_sequence"
        => /\ pc # "call"
                => /\ Len(nb_marker) <= Len(LoadItems)
                   /\ \A k \in DOMAIN nb_marker : nb_marker[k] = MarkersUsed(LoadItems[k])
           /\ AutoResolutionStage
                => \A k \in CommandsAt(":DAC:RESolution ") :
                      k > LastOf(CommandsAt(":SLIS:SEQ:NEW "))
                          => writes[k].write
                               = "SOURce1:DAC:RESolution "
                                   \o NatToStr(MaxResolution
                                        - MaxOf([i \in DOMAIN LoadItems |->
                                                    MarkersUsed(LoadItems[i])]))

C28_Witness ==
    /\ Len(ret) = 2 /\ ret[1] = Raise("ValueError", "Subsequence are not supported")
    /\ AutoResolutionStage /\ pc = "done"
    /\ \A i \in DOMAIN LoadItems : MarkersUsed(LoadItems[i]) = 0
    /\ writes[LastOf(CommandsAt(":DAC:RESolution "))].write = "SOURce1:DAC:RESolution 10"

----------------------------------------------------------------------------
(* Waveforms and tracks *)

\* the names of the waveform assets of every step of every descriptor of
\* the returned archive, step by step
LeafStepAssets ==
    Concat([d \in DOMAIN Descriptors |->
        [n \in DOMAIN Occurrences(Descriptors[d].text, "<Step>") |->
            SelectSeq(AllTagTexts(StepText(Descriptors[d].text, n), "AssetName"),
                      LAMBDA name : StartsWith(name, "wfm_"))]])

\* the <<track, waveform name>> of every track assignment of a sequence
\* command: :TASS<track>:WAV "<seqname>","<waveform name>";
TrackAssignments(cmd) ==
    LET tass == Occurrences(cmd, ":TASS")
        wav == Occurrences(cmd, ":WAV \"")
        from == Occurrences(cmd, "\",\"wfm_")
        to == Occurrences(cmd, "\";")
    IN [i \in DOMAIN tass |->
          <<SubSeq(cmd, tass[i] + Len(":TASS"), wav[i] - 1),
            SubSeq(cmd, from[i] + Len("\",\""), to[i] - 1)>>]

\* C29: in every descriptor of make_SEQX_from_forged_sequence the k-th
\* waveform listed in a step is the waveform of physical channel k, whatever
\* the channel mapping and the order of the channels in the data; and in
\* the sequence command of the instrument path every waveform wfm_p_q_c is
\* assigned to track c.
C29_AssetsInChannelOrder ==
    /\ (op = "make_SEQX_from_forged_sequence" /\ ArchiveReturned)
          => \A s \in DOMAIN LeafStepAssets :
                \A k \in DOMAIN LeafStepAssets[s] :
                    SplitUnderscore(LeafStepAssets[s][k])[4] = FormatD(k)
    /\ op = "load_broadbean_sequence"
          => \A w \in CommandsAt(":SLIS:SEQ:NEW ") :
                \A i \in DOMAIN TrackAssignments(writes[w].write) :
                    LET ta == TrackAssignments(writes[w].write)[i]
                    IN SplitUnderscore(ta[2])[4] = ta[1]

----------------------------------------------------------------------------
(* The step table in the descriptor and in the command stack *)

\* the argument of the command ':SLIS:SEQ:STEP<n>:<key> "<seqname>",' of a
\* command stack, "" when the stack has no such command
StepCommand(cmd, n, key, seqname) ==
    LET prefix == ":SLIS:SEQ:STEP" \o FormatD(n) \o ":" \o key \o " \"" \o seqname \o "\","
        occ == Occurrences(cmd, prefix)
        rest == SubSeq(cmd, occ[1] + Len(prefix), Len(cmd))
    IN IF occ = <<>> THEN ""
       ELSE SubSeq(rest, 1, Occurrences(rest, ";")[1] - 1)

\* both calls on the table have returned
BothRealised ==
    /\ op = "_send_sequence" /\ pc = "done"
    /\ ~IsError(ret[1]) /\ ~IsError(ret[2])

\* C30: for one step table, the descriptor of _make_SML_file and the command
\* stack of _send_sequence give every step the same repeat (infinite, once,
\* count), the same trigger-wait source, the same event-jump source and
\* target and the same goto target, an omitted command standing for the
\* default (once, no wait, no jump, next); the internal trigger (value 3) is
\* a source of its own in both.
C30_TableRealisationsAgree ==
    BothRealised
        => \A n \in DOMAIN args.trig_waits :
              LET step == StepText(ret[1].val, n)
                  cmd == writes[1].write
                  rco == StepCommand(cmd, n, "RCO", args.seqname)
                  winput == StepCommand(cmd, n, "WINPUT", args.seqname)
                  ejin == StepCommand(cmd, n, "EJIN", args.seqname)
                  ejump == StepCommand(cmd, n, "EJUMP", args.seqname)
                  goto == StepCommand(cmd, n, "GOTO", args.seqname)
              IN /\ TagText(step, "Repeat") = "Infinite" <=> rco = "Infinite"
                 /\ TagText(step, "Repeat") = "Once" <=> rco = ""
                 /\ TagText(step, "Repeat") = "RepeatCount"
                       => rco = TagText(step, "RepeatCount")
                 /\ TagText(step, "WaitInput") = "None" <=> winput = ""
                 /\ TagText(step, "WaitInput") = "TrigA" <=> winput = "ATR"
                 /\ TagText(step, "WaitInput") = "TrigB" <=> winput = "BTR"
                 /\ TagText(step, "EventJumpInput") = "None" <=> ejin = ""
                 /\ TagText(step, "EventJumpInput") = "TrigA" <=> ejin = "ATR"
                 /\ TagText(step, "EventJumpInput") = "TrigB" <=> ejin = "BTR"
                 /\ TagText(step, "EventJumpTo") = "Next" <=> ejump \in {"", "Next"}
                 /\ TagText(step, "EventJumpTo") = "StepIndex"
                       => ejump = TagText(step, "EventJumpToStep")
                 /\ TagText(step, "GoTo") = "Next" <=> goto = ""
                 /\ TagText(step, "GoTo") = "StepIndex" => goto = TagText(step, "GoToStep")

====
